---- MODULE Spec2Model ----
(***************************************************************************)
(* Ingestion pipeline of the backend: question mapping, response           *)
(* transforms, vocabulary validation and the IngestionService that writes  *)
(* validated payloads to an injected GraphWriter.                          *)
(*                                                                         *)
(* Python values are tagged records [t, n, s]; floats are fixed-point      *)
(* integers in millionths.  Python dicts are TLA+ functions from string    *)
(* keys.  Text built by f-strings is a sequence of its pieces, so a        *)
(* message's prefix is its first piece.  A call that may raise returns a   *)
(* record [exc, msg, val] with exc = "" when it returned normally.         *)
(***************************************************************************)
EXTENDS Integers, Sequences, FiniteSets, TLC

\* ------------------------------------------------------------------ bounds
\* Longest batch handed to ingest_batch.
MaxBatch == 3
\* Largest integer a numeric string of the model denotes.
MaxParse == 9
\* Threads that may call the registry loaders at the same time.
NThreads == 2

\* ------------------------------------------------------------ Python values
None == [t |-> "none", n |-> 0, s |-> ""]
IntV(i) == [t |-> "int", n |-> i, s |-> ""]
FloatV(micro) == [t |-> "float", n |-> micro, s |-> ""]
StrV(str) == [t |-> "str", n |-> 0, s |-> str]
BoolV(b) == [t |-> "bool", n |-> IF b THEN 1 ELSE 0, s |-> ""]
DateV(iso) == [t |-> "datetime", n |-> 0, s |-> iso]
\* A list object, known by its identity: copying the value copies the
\* reference, not the object.  The pipeline never reads a list's items.
ListV(ref) == [t |-> "list", n |-> ref, s |-> ""]

\* One unit of a float, in millionths.
Micro == 1000000

EmptyDict == [k \in {} |-> None]

\* dict.get(key): the stored value, or None when the key is absent.
Get(d, key) == IF key \in DOMAIN d THEN d[key] ELSE None

\* d.update(other): the keys of other overwrite those of d.
Update(d, other) == other @@ d

\* An assignment x = value followed by the statements F(x): value is computed
\* once, before F uses it.
Bind(value, F(_)) == CHOOSE result \in {F(x) : x \in {value}} : TRUE

\* Python truthiness of a scalar value.
Truthy(v) ==
  CASE v.t = "none" -> FALSE
    [] v.t = "str" -> v.s # ""
    [] v.t = "datetime" -> TRUE
    [] OTHER -> v.n # 0

\* Python truthiness of a dict.
TruthyDict(d) == DOMAIN d # {}

Digit == <<"0", "1", "2", "3", "4", "5", "6", "7", "8", "9">>

RECURSIVE NatStr(_)
NatStr(i) == IF i < 10 THEN Digit[i + 1] ELSE NatStr(i \div 10) \o Digit[(i % 10) + 1]

\* str(value) of a scalar.
Str(v) ==
  CASE v.t = "none" -> "None"
    [] v.t = "str" -> v.s
    [] v.t = "datetime" -> v.s
    [] v.t = "bool" -> IF v.n = 1 THEN "True" ELSE "False"
    [] v.t = "int" -> IF v.n < 0 THEN "-" \o NatStr(-v.n) ELSE NatStr(v.n)
    [] OTHER -> NatStr(v.n \div Micro) \o "." \o NatStr(v.n % Micro)

\* Outcome of a call: returned val, or raised exc with message msg.
Ok(val) == [exc |-> "", msg |-> <<>>, val |-> val]
Raise(exc, msg) == [exc |-> exc, msg |-> msg, val |-> None]

\* The exception classes and their bases.
IsInstance(exc, cls) ==
  \/ exc = cls
  \/ cls = "ValueError" /\ exc \in {"ResponseMappingError", "VocabularyError"}
  \/ cls = "KeyError" /\ exc = "QuestionMappingError"
  \/ cls = "RuntimeError" /\ exc = "GraphWriteError"

\* float(value): ints and numeric strings convert, other strings raise
\* ValueError, None raises TypeError.
ToFloat(v) ==
  CASE v.t \in {"int", "bool"} -> Ok(v.n * Micro)
    [] v.t = "float" -> Ok(v.n)
    [] v.t = "str" ->
         IF \E i \in 0..MaxParse : NatStr(i) = v.s
         THEN Ok((CHOOSE i \in 0..MaxParse : NatStr(i) = v.s) * Micro)
         ELSE Raise("ValueError", <<"could not convert string to float: ", v.s>>)
    [] OTHER -> Raise("TypeError", <<"float() argument must be a string or a number">>)

\* --------------------------------------------------------------- vocabulary
\* Every vocabulary string of the configuration, in sorted order.
SortedVocab ==
  <<"capacity_score", "choice", "housing", "hydration", "medium",
    "self_report", "sleep", "survey">>

\* The registry VocabularyRegistry.from_file builds from graph_vocab.json.
VocabularyRegistry ==
  [choice_modalities |-> {"sleep", "hydration"},
   chance_domains |-> {"housing"},
   observation_types |-> {"self_report", "survey"},
   metric_types |-> {"capacity_score"},
   effort_levels |-> {"medium"},
   facet_types |-> {"choice"}]

RECURSIVE ListRepr(_)
ListRepr(seq) ==
  IF seq = <<>> THEN ""
  ELSE "'" \o Head(seq) \o "'" \o (IF Len(seq) > 1 THEN ", " ELSE "") \o ListRepr(Tail(seq))

\* The text of sorted(allowed).
SortedRepr(allowed) ==
  "[" \o ListRepr(SelectSeq(SortedVocab, LAMBDA x : x \in allowed)) \o "]"

\* "; ".join(errors), each error a sequence of pieces.
RECURSIVE Join(_)
Join(errors) ==
  IF errors = <<>> THEN <<>>
  ELSE IF Len(errors) = 1 THEN Head(errors)
  ELSE Head(errors) \o <<"; ">> \o Join(Tail(errors))

\* _require letting a missing value pass.
_require_none_ok(value, allowed, field_name) ==
  IF value = None
  THEN Ok(None)
  ELSE IF Str(value) \notin allowed
  THEN Raise("VocabularyError",
             <<"Unexpected ", field_name, " '", Str(value), "'. Allowed values: ",
               SortedRepr(allowed)>>)
  ELSE Ok(None)

_require(value, allowed, field_name) ==
  IF value = None
  THEN Raise("VocabularyError", <<"Missing value for ", field_name>>)
  ELSE IF Str(value) \notin allowed
  THEN Raise("VocabularyError",
             <<"Unexpected ", field_name, " '", Str(value), "'. Allowed values: ",
               SortedRepr(allowed)>>)
  ELSE Ok(None)

validate_choice_modality(registry, modality) ==
  _require(modality, registry.choice_modalities, "choice modality")

validate_chance_domain(registry, domain) ==
  _require(domain, registry.chance_domains, "chance domain")

validate_observation_type(registry, observation_type) ==
  _require(observation_type, registry.observation_types, "observation type")

validate_metric_type(registry, metric_type) ==
  _require(metric_type, registry.metric_types, "metric type")

validate_effort_level(registry, effort_level) ==
  _require(effort_level, registry.effort_levels, "effort level")

validate_facet_type(registry, facet_type) ==
  _require(facet_type, registry.facet_types, "facet type")

validate_choice_payload(registry, payload) ==
  validate_choice_modality(registry, Get(payload, "modality"))

validate_chance_payload(registry, payload) ==
  validate_chance_domain(registry, Get(payload, "domain"))

\* The errors list validate_observation_payload collects, in append order.
ObservationErrors(registry, payload) ==
  LET r1 == validate_observation_type(registry, Get(payload, "observation_type"))
      choice_modality == Get(payload, "choice_modality")
      r2 == validate_choice_modality(registry, choice_modality)
      chance_domain == Get(payload, "chance_domain")
      r3 == validate_chance_domain(registry, chance_domain)
  IN  (IF r1.exc = "VocabularyError" THEN <<r1.msg>> ELSE <<>>)
      \o (IF choice_modality # None /\ r2.exc = "VocabularyError" THEN <<r2.msg>> ELSE <<>>)
      \o (IF chance_domain # None /\ r3.exc = "VocabularyError" THEN <<r3.msg>> ELSE <<>>)

\* validate_observation_payload raising at the first field that fails.
validate_observation_payload_first_only(registry, payload) ==
  LET errors == ObservationErrors(registry, payload)
  IN  IF errors # <<>> THEN Raise("VocabularyError", Head(errors)) ELSE Ok(None)

validate_observation_payload(registry, payload) ==
  LET errors == ObservationErrors(registry, payload)
  IN  IF errors # <<>> THEN Raise("VocabularyError", Join(errors)) ELSE Ok(None)

validate_metric_payload(registry, payload) ==
  validate_metric_type(registry, Get(payload, "metric_type"))

\* A fragment argument of validate: payload.get(key), None read as the empty dict
\* (both are falsy, and validate only tests truthiness before using it).
Fragment(payload, key) == IF key \in DOMAIN payload THEN payload[key] ELSE EmptyDict

\* validate looking at the observation fragment before the choice and chance
\* fragments.
validate_observation_first(registry, choice, chance, observation, metric, facet, intervention) ==
  LET c1 == IF TruthyDict(choice) THEN validate_choice_payload(registry, choice) ELSE Ok(None)
      c2 == IF TruthyDict(chance) THEN validate_chance_payload(registry, chance) ELSE Ok(None)
      c3 == IF TruthyDict(observation)
            THEN validate_observation_payload(registry, observation) ELSE Ok(None)
      c4 == IF TruthyDict(metric) THEN validate_metric_payload(registry, metric) ELSE Ok(None)
      c5 == IF TruthyDict(facet)
            THEN validate_facet_type(registry, Get(facet, "facet_type")) ELSE Ok(None)
      effort == Get(intervention, "effort_level")
      c6 == IF TruthyDict(intervention) /\ effort # None
            THEN validate_effort_level(registry, effort) ELSE Ok(None)
  IN  IF c3.exc # "" THEN c3
      ELSE IF c1.exc # "" THEN c1
      ELSE IF c2.exc # "" THEN c2
      ELSE IF c4.exc # "" THEN c4
      ELSE IF c5.exc # "" THEN c5
      ELSE c6

\* VocabularyRegistry.validate: the fragments in order, the first error raised.
validate(registry, choice, chance, observation, metric, facet, intervention) ==
  LET c1 == IF TruthyDict(choice) THEN validate_choice_payload(registry, choice) ELSE Ok(None)
      c2 == IF TruthyDict(chance) THEN validate_chance_payload(registry, chance) ELSE Ok(None)
      c3 == IF TruthyDict(observation)
            THEN validate_observation_payload(registry, observation) ELSE Ok(None)
      c4 == IF TruthyDict(metric) THEN validate_metric_payload(registry, metric) ELSE Ok(None)
      c5 == IF TruthyDict(facet)
            THEN validate_facet_type(registry, Get(facet, "facet_type")) ELSE Ok(None)
      effort == Get(intervention, "effort_level")
      c6 == IF TruthyDict(intervention) /\ effort # None
            THEN validate_effort_level(registry, effort) ELSE Ok(None)
  IN  IF c1.exc # "" THEN c1
      ELSE IF c2.exc # "" THEN c2
      ELSE IF c3.exc # "" THEN c3
      ELSE IF c4.exc # "" THEN c4
      ELSE IF c5.exc # "" THEN c5
      ELSE c6

\* load_registry handing out a default-constructed (empty) registry on a cache hit.
load_registry_empty_on_hit(cache) ==
  IF cache.loaded
  THEN [loaded |-> TRUE,
        registry |-> [choice_modalities |-> {}, chance_domains |-> {},
                      observation_types |-> {}, metric_types |-> {},
                      effort_levels |-> {}, facet_types |-> {}]]
  ELSE [loaded |-> TRUE, registry |-> VocabularyRegistry]

\* load_registry: the cached registry, built on first use.
load_registry(cache) ==
  IF cache.loaded THEN cache ELSE [loaded |-> TRUE, registry |-> VocabularyRegistry]

validate_payload(cache, payload) ==
  LET registry == load_registry(cache).registry
  IN  validate(registry,
               Fragment(payload, "choice"), Fragment(payload, "chance"),
               Fragment(payload, "observation"), Fragment(payload, "metric"),
               Fragment(payload, "facet"), Fragment(payload, "intervention"))

\* --------------------------------------------------------- question mapping
TargetInfo(type, id, modality, domain) ==
  [type |-> type, id |-> id, modality |-> modality, domain |-> domain]

QuestionInfo(prompt, response_type, observation_type, target, transforms) ==
  [prompt |-> prompt, response_type |-> response_type,
   observation_type |-> observation_type, target |-> target, transforms |-> transforms]

\* The instruments QuestionMappingRegistry.from_file builds from
\* question_mapping.json.  "edge_cases" holds entries that rely on from_file's
\* defaults (response_type "unknown", target type "unknown") or that disagree
\* with the vocabulary.
Instruments ==
  [onboarding_survey_v1 |->
     [q_sleep_schedule |->
        QuestionInfo("sleep schedule", "likert_5", "survey",
                     TargetInfo("choice", "sleep_hygiene", StrV("sleep"), None),
                     [score_mapping |-> [x \in {"4"} |-> FloatV(700000)],
                      store_raw |-> BoolV(TRUE)]),
      q_housing_security |->
        QuestionInfo("housing security", "multiple_choice", "survey",
                     TargetInfo("chance", "housing_security", None, StrV("housing")),
                     [option_scores |-> [x \in {"stable"} |-> FloatV(1000000)]])],
   daily_journal |->
     [followup_hydration |->
        QuestionInfo("cups of water", "numeric", "self_report",
                     TargetInfo("choice", "hydration", StrV("hydration"), None),
                     [conversion_factor |-> FloatV(236588), input_unit |-> StrV("cups"),
                      output_unit |-> StrV("litres")]),
      journal_note |->
        QuestionInfo("notes", "free_text", "self_report",
                     TargetInfo("choice", "sleep_hygiene", StrV("sleep"), None),
                     [tag |-> StrV("journal")])],
   edge_cases |->
     [q_unknown_kind |->
        QuestionInfo("", "unknown", "survey",
                     TargetInfo("choice", "sleep_hygiene", StrV("sleep"), None), EmptyDict),
      q_unknown_target |->
        QuestionInfo("", "free_text", "survey",
                     TargetInfo("unknown", "", None, None), EmptyDict),
      q_bad_obs_type |->
        QuestionInfo("", "likert", "lab_result",
                     TargetInfo("choice", "sleep_hygiene", StrV("sleep"), None),
                     [score_mapping |-> [x \in {"4"} |-> FloatV(700000)]]),
      q_no_modality |->
        QuestionInfo("", "numeric", "self_report",
                     TargetInfo("choice", "sleep_hygiene", None, None), EmptyDict),
      q_no_domain |->
        QuestionInfo("", "free_text", "self_report",
                     TargetInfo("chance", "housing_security", None, None), EmptyDict),
      q_tagged_note |->
        QuestionInfo("", "free_text", "self_report",
                     TargetInfo("choice", "sleep_hygiene", StrV("sleep"), None),
                     [tags |-> ListV(1)]),
      q_bad_factor |->
        QuestionInfo("", "numeric", "self_report",
                     TargetInfo("choice", "hydration", StrV("hydration"), None),
                     [conversion_factor |-> StrV("abc")])]]

QuestionMappingRegistry == [version |-> "test", instruments |-> Instruments]

\* get_question searching for the question before looking at the instrument.
get_question_question_first(registry, instrument_id, question_id) ==
  IF \/ instrument_id \notin DOMAIN registry.instruments
     \/ question_id \notin DOMAIN registry.instruments[instrument_id]
  THEN Raise("QuestionMappingError",
             <<"Unknown question '", question_id, "' for instrument '", instrument_id, "'">>)
  ELSE Ok(registry.instruments[instrument_id][question_id])

get_question(registry, instrument_id, question_id) ==
  IF instrument_id \notin DOMAIN registry.instruments
  THEN Raise("QuestionMappingError", <<"Unknown instrument '", instrument_id, "'">>)
  ELSE IF question_id \notin DOMAIN registry.instruments[instrument_id]
  THEN Raise("QuestionMappingError",
             <<"Unknown question '", question_id, "' for instrument '", instrument_id, "'">>)
  ELSE Ok(registry.instruments[instrument_id][question_id])

\* load_question_registry: the cached registry, built on first use.
load_question_registry(cache) ==
  IF cache.loaded THEN cache ELSE [loaded |-> TRUE, registry |-> QuestionMappingRegistry]

\* ------------------------------------------------------ response transforms
\* The suffixes that follow "likert" in the response types of the model.
LikertSuffixes == {"", "_5", "_7"}

\* response_type.startswith("likert")
StartsWithLikert(response_type) == \E suffix \in LikertSuffixes : response_type = "likert" \o suffix

\* transforms.get(key) or {}
TableOrEmpty(transforms, key) == IF key \in DOMAIN transforms THEN transforms[key] ELSE EmptyDict

\* Product of two floats held in millionths, split so no partial product overflows.
FloatMul(a, b) ==
  LET ah == a \div 1000
      al == a % 1000
      bh == b \div 1000
      bl == b % 1000
  IN  ah * bh + (ah * bl + al * bh) \div 1000 + (al * bl) \div Micro

\* The text an f-string shows for a QuestionInfo.
QuestionRepr(question) == "QuestionInfo(prompt='" \o question.prompt \o "', ...)"

\* d[key] = value
Put(d, key, value) == (key :> value) @@ d

\* if cond: d[key] = value
PutIf(cond, d, key, value) == (IF cond THEN key :> value ELSE EmptyDict) @@ d

\* a or b
OrElse(a, b) == IF Truthy(a) THEN a ELSE b

\* The likert branch always recording the raw answer.
LikertTransform_always_raw(question, transforms, answer, mapping, key) ==
  IF key \notin DOMAIN mapping
  THEN Raise("ResponseMappingError",
             <<"Answer '", Str(answer), "' not present in score mapping for question '",
               QuestionRepr(question), "'">>)
  ELSE Ok([value |-> mapping[key], units |-> None,
           metadata |-> PutIf(TRUE, [x \in {"score"} |-> mapping[key]], "raw_value", answer)])

\* The likert branch of _apply_transforms.
LikertTransform(question, transforms, answer, mapping, key) ==
  IF key \notin DOMAIN mapping
  THEN Raise("ResponseMappingError",
             <<"Answer '", Str(answer), "' not present in score mapping for question '",
               QuestionRepr(question), "'">>)
  ELSE Ok([value |-> mapping[key], units |-> None,
           metadata |-> PutIf(Truthy(Get(transforms, "store_raw")),
                              [x \in {"score"} |-> mapping[key]], "raw_value", answer)])

\* The multiple_choice branch of _apply_transforms.
OptionTransform(question, answer, option_scores, option_key) ==
  IF option_key \notin DOMAIN option_scores
  THEN Raise("ResponseMappingError",
             <<"Answer '", Str(answer), "' not present in option scores for question '",
               QuestionRepr(question), "'">>)
  ELSE Ok([value |-> option_scores[option_key], units |-> None,
           metadata |-> [x \in {"selected_option", "score"} |->
                           IF x = "score" THEN option_scores[option_key]
                           ELSE StrV(option_key)]])

\* The numeric branch recording the conversion factor without applying it.
NumericTransform_no_conversion(transforms, answer, parsed, conversion_factor, factor) ==
  LET units == OrElse(Get(transforms, "output_unit"), Get(transforms, "input_unit"))
      m1 == PutIf(conversion_factor # None, EmptyDict, "conversion_factor", conversion_factor)
      m2 == PutIf(conversion_factor # None /\ Truthy(Get(transforms, "input_unit")),
                  m1, "input_unit", Get(transforms, "input_unit"))
      m3 == PutIf(Truthy(Get(transforms, "store_raw")), m2, "raw_value", answer)
  IN  IF IsInstance(parsed.exc, "TypeError") \/ IsInstance(parsed.exc, "ValueError")
      THEN Raise("ResponseMappingError",
                 <<"Expected numeric answer, received '", Str(answer), "'">>)
      ELSE IF conversion_factor # None /\ factor.exc # ""
      THEN factor
      ELSE Ok([value |-> FloatV(parsed.val), units |-> units, metadata |-> m3])

\* The numeric branch of _apply_transforms after float(answer) returned parsed.
NumericTransform(transforms, answer, parsed, conversion_factor, factor) ==
  LET units == OrElse(Get(transforms, "output_unit"), Get(transforms, "input_unit"))
      m1 == PutIf(conversion_factor # None, EmptyDict, "conversion_factor", conversion_factor)
      m2 == PutIf(conversion_factor # None /\ Truthy(Get(transforms, "input_unit")),
                  m1, "input_unit", Get(transforms, "input_unit"))
      m3 == PutIf(Truthy(Get(transforms, "store_raw")), m2, "raw_value", answer)
  IN  IF IsInstance(parsed.exc, "TypeError") \/ IsInstance(parsed.exc, "ValueError")
      THEN Raise("ResponseMappingError",
                 <<"Expected numeric answer, received '", Str(answer), "'">>)
      ELSE IF conversion_factor # None /\ factor.exc # ""
      THEN factor
      ELSE Ok([value |-> FloatV(IF conversion_factor # None
                                THEN FloatMul(parsed.val, factor.val) ELSE parsed.val),
               units |-> units, metadata |-> m3])

\* The free_text branch keeping the answer's raw_text over a transforms entry
\* of the same name.
FreeTextTransform_answer_wins(transforms, answer) ==
  Ok([value |-> StrV(Str(answer)), units |-> None,
      metadata |-> Update(transforms, [x \in {"raw_text"} |-> StrV(Str(answer))])])

\* The free_text branch of _apply_transforms.
FreeTextTransform(transforms, answer) ==
  Ok([value |-> StrV(Str(answer)), units |-> None,
      metadata |-> Update([x \in {"raw_text"} |-> StrV(Str(answer))], transforms)])

_apply_transforms(question, answer) ==
  IF StartsWithLikert(question.response_type)
  THEN LikertTransform(question, question.transforms, answer,
                       TableOrEmpty(question.transforms, "score_mapping"), Str(answer))
  ELSE IF question.response_type = "multiple_choice"
  THEN OptionTransform(question, answer,
                       TableOrEmpty(question.transforms, "option_scores"), Str(answer))
  ELSE IF question.response_type = "numeric"
  THEN NumericTransform(question.transforms, answer, ToFloat(answer),
                        Get(question.transforms, "conversion_factor"),
                        ToFloat(Get(question.transforms, "conversion_factor")))
  ELSE IF question.response_type = "free_text"
  THEN FreeTextTransform(question.transforms, answer)
  ELSE Raise("ResponseMappingError",
             <<"Unsupported response type '", question.response_type, "'">>)

\* _normalise_timestamp letting a value of the wrong type fail with TypeError.
_normalise_timestamp_typeerror(value) ==
  IF value.t = "datetime" THEN Ok(StrV(value.s))
  ELSE IF value.t # "str"
  THEN Raise("TypeError", <<"Unsupported timestamp value ", Str(value)>>)
  ELSE Ok(value)

_normalise_timestamp(value) ==
  IF value.t = "datetime" THEN Ok(StrV(value.s))
  ELSE IF value.t # "str"
  THEN Raise("ResponseMappingError", <<"Unsupported timestamp value ", Str(value)>>)
  ELSE Ok(value)

\* ---------------------------------------------------------- payload assembly
\* The merge letting the caller's extra_metadata win over the transform's.
MergeMetadata_extra_wins(extra_metadata, transform_metadata) ==
  LET md0 == Update(EmptyDict, transform_metadata)
      md1 == IF TruthyDict(extra_metadata) THEN Update(md0, extra_metadata) ELSE md0
  IN  [metadata |-> md1, extra_metadata |-> extra_metadata]

\* metadata = {}; update(extra_metadata) if truthy; update(transform_metadata).
\* metadata is the new dict; extra_metadata is the caller's mapping after the
\* statements, which only read it.
MergeMetadata(extra_metadata, transform_metadata) ==
  LET md0 == EmptyDict
      md1 == IF TruthyDict(extra_metadata) THEN Update(md0, extra_metadata) ELSE md0
  IN  [metadata |-> Update(md1, transform_metadata), extra_metadata |-> extra_metadata]

\* The observation fragment map_response_to_payload builds; stamp is the
\* normalised recorded_at.
Observation(question, value, units, transform_metadata, recorded_at, stamp, extra_metadata) ==
  LET o0 == [x \in {"observation_type", "value"} |->
               IF x = "value" THEN value ELSE StrV(question.observation_type)]
      o1 == PutIf(Truthy(question.target.modality), o0, "choice_modality",
                  question.target.modality)
      o2 == PutIf(Truthy(question.target.domain), o1, "chance_domain", question.target.domain)
      o3 == PutIf(Truthy(units), o2, "units", units)
      metadata == MergeMetadata(extra_metadata, transform_metadata).metadata
      o4 == PutIf(TruthyDict(metadata), o3, "metadata", metadata)
  IN  PutIf(recorded_at # None, o4, "recorded_at", stamp)

\* The target fragment map_response_to_payload builds.
TargetPayload(target) ==
  LET t0 == [x \in {"type", "id"} |-> IF x = "type" THEN StrV(target.type) ELSE StrV(target.id)]
      t1 == PutIf(Truthy(target.modality), t0, "modality", target.modality)
  IN  PutIf(Truthy(target.domain), t1, "domain", target.domain)

\* The assembly treating every target that is not a choice as a chance.
AssemblePayload_chance_by_default(question, transformed, recorded_at, stamp, extra_metadata) ==
  LET p0 == [x \in {"observation", "target"} |->
               IF x = "target" THEN TargetPayload(question.target)
               ELSE Observation(question, transformed.value, transformed.units,
                                transformed.metadata, recorded_at, stamp.val, extra_metadata)]
      c0 == [x \in {"id"} |-> StrV(question.target.id)]
  IN  IF recorded_at # None /\ stamp.exc # "" THEN stamp
      ELSE IF question.target.type = "choice"
      THEN Ok(Put(p0, "choice", PutIf(Truthy(question.target.modality), c0, "modality",
                                      question.target.modality)))
      ELSE Ok(Put(p0, "chance", PutIf(Truthy(question.target.domain), c0, "domain",
                                      question.target.domain)))

\* map_response_to_payload from the transform's result on: the fragments, then
\* the choice or chance fragment by target type.
AssemblePayload(question, transformed, recorded_at, stamp, extra_metadata) ==
  LET p0 == [x \in {"observation", "target"} |->
               IF x = "target" THEN TargetPayload(question.target)
               ELSE Observation(question, transformed.value, transformed.units,
                                transformed.metadata, recorded_at, stamp.val, extra_metadata)]
      c0 == [x \in {"id"} |-> StrV(question.target.id)]
  IN  IF recorded_at # None /\ stamp.exc # "" THEN stamp
      ELSE IF question.target.type = "choice"
      THEN Ok(Put(p0, "choice", PutIf(Truthy(question.target.modality), c0, "modality",
                                      question.target.modality)))
      ELSE IF question.target.type = "chance"
      THEN Ok(Put(p0, "chance", PutIf(Truthy(question.target.domain), c0, "domain",
                                      question.target.domain)))
      ELSE Raise("ResponseMappingError",
                 <<"Unsupported target type '", question.target.type, "'">>)

\* The mapper running the transform before it checks the observation_type.
MapQuestion_transform_first(vocab_registry, question, answer, recorded_at, extra_metadata) ==
  Bind(_apply_transforms(question, answer), LAMBDA transformed :
  IF transformed.exc # "" THEN transformed
  ELSE Bind(validate_observation_type(vocab_registry, StrV(question.observation_type)),
            LAMBDA checked :
       IF checked.exc # "" THEN checked
       ELSE Bind(_normalise_timestamp(recorded_at), LAMBDA stamp :
            AssemblePayload(question, transformed.val, recorded_at, stamp, extra_metadata))))

\* map_response_to_payload once get_question returned question.
MapQuestion(vocab_registry, question, answer, recorded_at, extra_metadata) ==
  Bind(validate_observation_type(vocab_registry, StrV(question.observation_type)),
       LAMBDA checked :
  IF checked.exc # "" THEN checked
  ELSE Bind(_apply_transforms(question, answer), LAMBDA transformed :
       IF transformed.exc # "" THEN transformed
       ELSE Bind(_normalise_timestamp(recorded_at), LAMBDA stamp :
            AssemblePayload(question, transformed.val, recorded_at, stamp, extra_metadata))))

\* extra_metadata is a dict; None is read as the empty dict (both are falsy and
\* the code only tests its truthiness before reading it).
map_response_to_payload(qcache, vcache, instrument_id, question_id, answer, recorded_at, extra_metadata) ==
  Bind(get_question(load_question_registry(qcache).registry, instrument_id, question_id),
       LAMBDA looked :
  IF looked.exc # "" THEN looked
  ELSE Bind(looked.val, LAMBDA question :
       MapQuestion(load_registry(vcache).registry, question, answer,
                   recorded_at, extra_metadata)))

\* ------------------------------------------------------------------ service
NoReason == [some |-> FALSE, text |-> <<>>]
Reason(text) == [some |-> TRUE, text |-> text]

IngestionResult(status, payload, reason) ==
  [status |-> status, payload |-> payload, reason |-> reason]

\* _log_rejection leaving the payload out of the record.
_log_rejection_reason_only(reason, instrument_id, question_id, answer, payload) ==
  [event |-> "ingestion_rejected", reason |-> reason, instrument_id |-> instrument_id,
   question_id |-> question_id, answer |-> answer, payload |-> None]

\* The record _log_rejection hands to logger.warning; identifiers a call does
\* not pass are None.
_log_rejection(reason, instrument_id, question_id, answer, payload) ==
  [event |-> "ingestion_rejected", reason |-> reason, instrument_id |-> instrument_id,
   question_id |-> question_id, answer |-> answer, payload |-> payload]

\* A call the service makes on the GraphWriter, and whether it returned.
WriterCall(op, payloads, ok) == [op |-> op, payloads |-> payloads, ok |-> ok]

\* What one service call did: its outcome (a returned value or an escaping
\* exception), the rejection log records, the GraphWriter calls, and the steps
\* taken in program order ("logged" for each _log_rejection call, "written" or
\* "write_failed" for each GraphWriter call, the others for the result built).
Effect(out, log, calls, stages) == [out |-> out, log |-> log, calls |-> calls, stages |-> stages]

\* The injected GraphWriter: writer_ok tells whether the backend answers 2xx;
\* otherwise _handle_response raises GraphWriteError.
_handle_response(writer_ok, context) ==
  IF writer_ok THEN Ok(None)
  ELSE Raise("GraphWriteError", <<"Graph backend ", context, " ingestion failed">>)

write(payload, writer_ok) == _handle_response(writer_ok, "single")

write_many(payloads, writer_ok) == _handle_response(writer_ok, "batch")

\* ingest_payload with the writer called before the validation result is looked at.
ingest_payload_write_first(vcache, payload, writer_ok) ==
  Bind(validate_payload(vcache, payload), LAMBDA validated :
  Bind(<<"vocabulary_error: ">> \o validated.msg, LAMBDA reason :
  Bind(write(payload, writer_ok), LAMBDA written :
      IF written.exc # ""
      THEN Effect(written, <<>>, <<WriterCall("write", <<payload>>, FALSE)>>,
                  <<"write_failed">>)
      ELSE IF IsInstance(validated.exc, "VocabularyError")
      THEN Effect(Ok(IngestionResult("rejected", payload, Reason(reason))),
                  <<_log_rejection(reason, None, None, None, payload)>>,
                  <<WriterCall("write", <<payload>>, TRUE)>>,
                  <<"written", "logged", "rejected_vocabulary">>)
      ELSE Effect(Ok(IngestionResult("accepted", payload, NoReason)),
                  <<>>, <<WriterCall("write", <<payload>>, TRUE)>>,
                  <<"written", "validated", "accepted">>))))

\* ingest_payload returning an empty payload with a rejection, as the mapping
\* branch of ingest_question_response does.
ingest_payload_empty_echo(vcache, payload, writer_ok) ==
  Bind(validate_payload(vcache, payload), LAMBDA validated :
  Bind(<<"vocabulary_error: ">> \o validated.msg, LAMBDA reason :
      IF IsInstance(validated.exc, "VocabularyError")
      THEN Effect(Ok(IngestionResult("rejected", EmptyDict, Reason(reason))),
                  <<_log_rejection(reason, None, None, None, payload)>>,
                  <<>>, <<"logged", "rejected_vocabulary">>)
      ELSE Bind(write(payload, writer_ok), LAMBDA written :
           IF written.exc # ""
           THEN Effect(written, <<>>, <<WriterCall("write", <<payload>>, FALSE)>>,
                       <<"validated", "write_failed">>)
           ELSE Effect(Ok(IngestionResult("accepted", payload, NoReason)),
                       <<>>, <<WriterCall("write", <<payload>>, TRUE)>>,
                       <<"validated", "written", "accepted">>))))

\* ingest_payload catching the writer's exception and reporting success anyway.
ingest_payload_swallow_write_error(vcache, payload, writer_ok) ==
  Bind(validate_payload(vcache, payload), LAMBDA validated :
  Bind(<<"vocabulary_error: ">> \o validated.msg, LAMBDA reason :
      IF IsInstance(validated.exc, "VocabularyError")
      THEN Effect(Ok(IngestionResult("rejected", payload, Reason(reason))),
                  <<_log_rejection(reason, None, None, None, payload)>>,
                  <<>>, <<"logged", "rejected_vocabulary">>)
      ELSE Bind(write(payload, writer_ok), LAMBDA written :
           Effect(Ok(IngestionResult("accepted", payload, NoReason)),
                  <<>>, <<WriterCall("write", <<payload>>, written.exc = "")>>,
                  <<"validated", IF written.exc = "" THEN "written" ELSE "write_failed",
                    "accepted">>))))

\* ingest_payload catching the writer's exception and turning it into a rejection.
ingest_payload_reject_on_write_error(vcache, payload, writer_ok) ==
  Bind(validate_payload(vcache, payload), LAMBDA validated :
  Bind(<<"vocabulary_error: ">> \o validated.msg, LAMBDA reason :
      IF IsInstance(validated.exc, "VocabularyError")
      THEN Effect(Ok(IngestionResult("rejected", payload, Reason(reason))),
                  <<_log_rejection(reason, None, None, None, payload)>>,
                  <<>>, <<"logged", "rejected_vocabulary">>)
      ELSE Bind(write(payload, writer_ok), LAMBDA written :
           IF written.exc # ""
           THEN Effect(Ok(IngestionResult("rejected", payload,
                                          Reason(<<"write_error: ">> \o written.msg))),
                       <<_log_rejection(<<"write_error: ">> \o written.msg, None, None, None,
                                        payload)>>,
                       <<WriterCall("write", <<payload>>, FALSE)>>,
                       <<"validated", "write_failed", "logged", "rejected_write">>)
           ELSE Effect(Ok(IngestionResult("accepted", payload, NoReason)),
                       <<>>, <<WriterCall("write", <<payload>>, TRUE)>>,
                       <<"validated", "written", "accepted">>))))

ingest_payload(vcache, payload, writer_ok) ==
  Bind(validate_payload(vcache, payload), LAMBDA validated :
  Bind(<<"vocabulary_error: ">> \o validated.msg, LAMBDA reason :
      IF IsInstance(validated.exc, "VocabularyError")
      THEN Effect(Ok(IngestionResult("rejected", payload, Reason(reason))),
                  <<_log_rejection(reason, None, None, None, payload)>>,
                  <<>>, <<"logged", "rejected_vocabulary">>)
      ELSE IF validated.exc # ""
      THEN Effect(validated, <<>>, <<>>, <<"raised">>)
      ELSE Bind(write(payload, writer_ok), LAMBDA written :
           IF written.exc # ""
           THEN Effect(written, <<>>, <<WriterCall("write", <<payload>>, FALSE)>>,
                       <<"validated", "write_failed">>)
           ELSE Effect(Ok(IngestionResult("accepted", payload, NoReason)),
                       <<>>, <<WriterCall("write", <<payload>>, TRUE)>>,
                       <<"validated", "written", "accepted">>))))

\* ingest_question_response without its except clause.
ingest_question_response_uncaught(qcache, vcache, instrument_id, question_id, answer, recorded_at, metadata, writer_ok) ==
  Bind(map_response_to_payload(qcache, vcache, instrument_id, question_id,
                               answer, recorded_at, metadata), LAMBDA mapped :
      IF mapped.exc # ""
      THEN Effect(mapped, <<>>, <<>>, <<"raised">>)
      ELSE Bind(ingest_payload(load_registry(vcache), mapped.val, writer_ok), LAMBDA rest :
             Effect(rest.out, rest.log, rest.calls, <<"mapped">> \o rest.stages)))

\* ingest_question_response logging the mapping error but leaving the reason
\* out of the result.
ingest_question_response_no_reason(qcache, vcache, instrument_id, question_id, answer, recorded_at, metadata, writer_ok) ==
  Bind(map_response_to_payload(qcache, vcache, instrument_id, question_id,
                               answer, recorded_at, metadata), LAMBDA mapped :
  Bind(<<"mapping_error: ">> \o mapped.msg, LAMBDA reason :
      IF IsInstance(mapped.exc, "ResponseMappingError")
      THEN Effect(Ok(IngestionResult("rejected", EmptyDict, NoReason)),
                  <<_log_rejection(reason, StrV(instrument_id), StrV(question_id), answer,
                                   None)>>,
                  <<>>, <<"logged", "rejected_mapping">>)
      ELSE IF mapped.exc # ""
      THEN Effect(mapped, <<>>, <<>>, <<"raised">>)
      ELSE Bind(ingest_payload(load_registry(vcache), mapped.val, writer_ok), LAMBDA rest :
             Effect(rest.out, rest.log, rest.calls, <<"mapped">> \o rest.stages))))

ingest_question_response(qcache, vcache, instrument_id, question_id, answer, recorded_at, metadata, writer_ok) ==
  Bind(map_response_to_payload(qcache, vcache, instrument_id, question_id,
                               answer, recorded_at, metadata), LAMBDA mapped :
  Bind(<<"mapping_error: ">> \o mapped.msg, LAMBDA reason :
      IF IsInstance(mapped.exc, "ResponseMappingError")
      THEN Effect(Ok(IngestionResult("rejected", EmptyDict, Reason(reason))),
                  <<_log_rejection(reason, StrV(instrument_id), StrV(question_id), answer,
                                   None)>>,
                  <<>>, <<"logged", "rejected_mapping">>)
      ELSE IF mapped.exc # ""
      THEN Effect(mapped, <<>>, <<>>, <<"raised">>)
      ELSE Bind(ingest_payload(load_registry(vcache), mapped.val, writer_ok), LAMBDA rest :
             Effect(rest.out, rest.log, rest.calls, <<"mapped">> \o rest.stages))))

\* The loop of ingest_batch without its except clause: a vocabulary error ends it.
RECURSIVE BatchPass_uncaught(_, _, _)
BatchPass_uncaught(vcache, payloads, acc) ==
  IF payloads = <<>> \/ acc.exc # "" THEN acc
  ELSE
    Bind(Head(payloads), LAMBDA payload :
    Bind(validate_payload(vcache, payload), LAMBDA validated :
    Bind( IF validated.exc # ""
          THEN [acc EXCEPT !.exc = validated.exc, !.msg = validated.msg,
                           !.stages = Append(@, "raised")]
          ELSE [acc EXCEPT
                  !.accepted = Append(@, payload),
                  !.results = Append(@, IngestionResult("accepted", payload, NoReason)),
                  !.stages = Append(@, "accepted")],
      LAMBDA next : BatchPass_uncaught(load_registry(vcache), Tail(payloads), next))))

\* The for loop of ingest_batch over the payloads, from the accumulated state acc.
RECURSIVE BatchPass(_, _, _)
BatchPass(vcache, payloads, acc) ==
  IF payloads = <<>> \/ acc.exc # "" THEN acc
  ELSE
    Bind(Head(payloads), LAMBDA payload :
    Bind(validate_payload(vcache, payload), LAMBDA validated :
    Bind(<<"vocabulary_error: ">> \o validated.msg, LAMBDA reason :
    Bind( IF IsInstance(validated.exc, "VocabularyError")
          THEN [acc EXCEPT
                  !.log = Append(@, _log_rejection(reason, None, None, None, payload)),
                  !.results = Append(@, IngestionResult("rejected", payload, Reason(reason))),
                  !.stages = @ \o <<"logged", "rejected_vocabulary">>]
          ELSE IF validated.exc # ""
          THEN [acc EXCEPT !.exc = validated.exc, !.msg = validated.msg,
                           !.stages = Append(@, "raised")]
          ELSE [acc EXCEPT
                  !.accepted = Append(@, payload),
                  !.results = Append(@, IngestionResult("accepted", payload, NoReason)),
                  !.stages = Append(@, "accepted")],
      LAMBDA next : BatchPass(load_registry(vcache), Tail(payloads), next)))))

\* ingest_batch made all-or-nothing: one rejected item rejects its siblings.
ingest_batch_all_or_nothing(vcache, payloads, writer_ok) ==
  Bind(BatchPass(vcache, payloads,
                 [accepted |-> <<>>, results |-> <<>>, log |-> <<>>,
                  stages |-> <<>>, exc |-> "", msg |-> <<>>]), LAMBDA pass :
      IF Len(pass.accepted) < Len(payloads)
      THEN Effect(Ok([i \in DOMAIN pass.results |->
                        [pass.results[i] EXCEPT !.status = "rejected"]]),
                  pass.log, <<>>, Append(pass.stages, "returned"))
      ELSE IF pass.accepted # <<>>
      THEN Bind(write_many(pass.accepted, writer_ok), LAMBDA written :
           IF written.exc # ""
           THEN Effect(written, pass.log, <<WriterCall("write_many", pass.accepted, FALSE)>>,
                       Append(pass.stages, "write_failed"))
           ELSE Effect(Ok(pass.results), pass.log,
                       <<WriterCall("write_many", pass.accepted, TRUE)>>,
                       pass.stages \o <<"written", "returned">>))
      ELSE Effect(Ok(pass.results), pass.log, <<>>, Append(pass.stages, "returned")))

\* ingest_batch without the "if accepted:" guard before write_many.
ingest_batch_always_write(vcache, payloads, writer_ok) ==
  Bind(BatchPass(vcache, payloads,
                 [accepted |-> <<>>, results |-> <<>>, log |-> <<>>,
                  stages |-> <<>>, exc |-> "", msg |-> <<>>]), LAMBDA pass :
      Bind(write_many(pass.accepted, writer_ok), LAMBDA written :
           IF written.exc # ""
           THEN Effect(written, pass.log, <<WriterCall("write_many", pass.accepted, FALSE)>>,
                       Append(pass.stages, "write_failed"))
           ELSE Effect(Ok(pass.results), pass.log,
                       <<WriterCall("write_many", pass.accepted, TRUE)>>,
                       pass.stages \o <<"written", "returned">>)))

ingest_batch(vcache, payloads, writer_ok) ==
  Bind(BatchPass(vcache, payloads,
                 [accepted |-> <<>>, results |-> <<>>, log |-> <<>>,
                  stages |-> <<>>, exc |-> "", msg |-> <<>>]), LAMBDA pass :
      IF pass.exc # ""
      THEN Effect(Raise(pass.exc, pass.msg), pass.log, <<>>, pass.stages)
      ELSE IF pass.accepted # <<>>
      THEN Bind(write_many(pass.accepted, writer_ok), LAMBDA written :
           IF written.exc # ""
           THEN Effect(written, pass.log, <<WriterCall("write_many", pass.accepted, FALSE)>>,
                       Append(pass.stages, "write_failed"))
           ELSE Effect(Ok(pass.results), pass.log,
                       <<WriterCall("write_many", pass.accepted, TRUE)>>,
                       pass.stages \o <<"written", "returned">>))
      ELSE Effect(Ok(pass.results), pass.log, <<>>, Append(pass.stages, "returned")))

\* -------------------------------------------------------------------- inputs
\* (instrument_id, question_id) pairs: every registered question, an unknown
\* instrument and an unknown question of a known instrument.
QuestionKeys ==
  {<<i, q>> : i \in DOMAIN Instruments, q \in {"q_sleep_schedule", "q_housing_security",
      "followup_hydration", "journal_note", "q_unknown_kind", "q_unknown_target",
      "q_bad_obs_type", "q_no_modality", "q_no_domain", "q_tagged_note", "q_bad_factor"}}

QuestionCalls ==
  {k \in QuestionKeys : k[2] \in DOMAIN Instruments[k[1]]}
    \cup {<<"not_real", "q_sleep_schedule">>, <<"daily_journal", "not_real">>,
          <<"not_real", "not_real">>, <<"daily_journal", "q_sleep_schedule">>}

Answers == {IntV(4), StrV("8"), StrV("stable"), None}

RecordedAts == {None, DateV("2024-06-15T08:00:00"), StrV("2024-06-15T08:00:00Z"), IntV(5)}

Metadatas == {EmptyDict, [x \in {"score", "source"} |-> IF x = "score" THEN IntV(1) ELSE StrV("app")]}

ValidPayload ==
  [choice |-> [modality |-> StrV("sleep")],
   observation |-> [observation_type |-> StrV("self_report"), choice_modality |-> StrV("sleep")]]

BadChoicePayload ==
  [choice |-> [modality |-> StrV("invalid_modality")],
   observation |-> [observation_type |-> StrV("self_report")]]

BadObservationPayload ==
  [observation |-> [observation_type |-> StrV("bogus"), chance_domain |-> StrV("mars")]]

MissingModalityPayload == [choice |-> [id |-> StrV("sleep_hygiene")]]

EmptyChoicePayload == [choice |-> EmptyDict]

Payloads ==
  {ValidPayload, BadChoicePayload, BadObservationPayload, MissingModalityPayload,
   EmptyChoicePayload, EmptyDict}

Batches == UNION {[1..n -> Payloads] : n \in 0..MaxBatch}

\* --------------------------------------------------------------------- state
\* The service is synchronous and keeps no state of its own: one call runs at a
\* time, and what it did is held until the caller takes the outcome.
VARIABLES
  vocab_cache,      \* _registry_cache of vocabulary_registry
  question_cache,   \* _registry_cache of question_mapping
  pc,               \* "idle", or "done" when a call has finished
  call,             \* the finished call and its arguments
  out,              \* its outcome: the value returned or the exception raised
  log,              \* the rejection records it logged
  calls,            \* the GraphWriter calls it made
  stages,           \* the steps it took
  th,               \* per thread: the loader call it runs and its local variables
  heap,             \* per loader and thread: the registry instance the thread constructed
  bound             \* per loader: the instance its _registry_cache is bound to, 0 for None

vars == <<vocab_cache, question_cache, pc, call, out, log, calls, stages, th, heap, bound>>

\* The variables of the threads that run the registry loaders step by step.
loader_vars == <<th, heap, bound>>

\* The variables of a service or function call.
call_vars == <<pc, call, out, log, calls, stages>>

Threads == 1..NThreads

\* The two loaders: load_registry and load_question_registry.
Kinds == {"vocabulary", "question"}

NoLoad ==
  [pc |-> 0, kind |-> "vocabulary", path |-> "config", saw_none |-> FALSE,
   attempted |-> FALSE, ret |-> 0, ret_built |-> FALSE, exc |-> ""]

\* No instance: a thread constructs at most one registry per loader, so an
\* instance is known by the thread that constructed it.
NoInstance == [made |-> FALSE, complete |-> FALSE, registry |-> <<>>]


Unloaded == [loaded |-> FALSE, registry |-> <<>>]

Call(name, key, answer, recorded_at, metadata, payloads, writer_ok) ==
  [name |-> name, instrument_id |-> key[1], question_id |-> key[2], answer |-> answer,
   recorded_at |-> recorded_at, metadata |-> metadata, payloads |-> payloads,
   writer_ok |-> writer_ok]

NoCall == Call("none", <<"", "">>, None, None, EmptyDict, <<>>, TRUE)

\* Every payload the GraphWriter received in writer_calls, in order.
RECURSIVE Received(_)
Received(writer_calls) ==
  IF writer_calls = <<>> THEN <<>>
  ELSE Head(writer_calls).payloads \o Received(Tail(writer_calls))

Init ==
  /\ vocab_cache = Unloaded
  /\ question_cache = Unloaded
  /\ pc = "idle"
  /\ call = NoCall
  /\ out = Ok(None)
  /\ log = <<>>
  /\ calls = <<>>
  /\ stages = <<>>
  /\ th = [t \in Threads |-> NoLoad]
  /\ heap = [k \in Kinds |-> [t \in Threads |-> NoInstance]]
  /\ bound = [k \in Kinds |-> 0]

\* The state after the service call c with effect e.
Apply(c, e) ==
  /\ pc = "idle"
  /\ pc' = "done"
  /\ call' = c
  /\ out' = e.out
  /\ log' = e.log
  /\ calls' = e.calls
  /\ stages' = e.stages
  /\ UNCHANGED loader_vars

IngestQuestionResponse ==
  \E key \in QuestionCalls, answer \in Answers, recorded_at \in RecordedAts,
     metadata \in Metadatas, writer_ok \in BOOLEAN :
    /\ Apply(Call("ingest_question_response", key, answer, recorded_at, metadata,
                  <<>>, writer_ok),
             ingest_question_response(question_cache, vocab_cache, key[1], key[2],
                                      answer, recorded_at, metadata, writer_ok))
    /\ question_cache' = load_question_registry(question_cache)
    /\ vocab_cache' = load_registry(vocab_cache)

IngestPayload ==
  \E payload \in Payloads, writer_ok \in BOOLEAN :
    /\ Apply(Call("ingest_payload", <<"", "">>, None, None, EmptyDict, <<payload>>, writer_ok),
             ingest_payload(vocab_cache, payload, writer_ok))
    /\ vocab_cache' = load_registry(vocab_cache)
    /\ UNCHANGED question_cache

IngestBatch ==
  \E payloads \in Batches, writer_ok \in BOOLEAN :
    /\ Apply(Call("ingest_batch", <<"", "">>, None, None, EmptyDict, payloads, writer_ok),
             ingest_batch(vocab_cache, payloads, writer_ok))
    /\ vocab_cache' = IF payloads = <<>> THEN vocab_cache ELSE load_registry(vocab_cache)
    /\ UNCHANGED question_cache

\* The caller takes the outcome; the service is ready for the next call.
Return ==
  /\ pc = "done"
  /\ pc' = "idle"
  /\ call' = NoCall
  /\ out' = Ok(None)
  /\ log' = <<>>
  /\ calls' = <<>>
  /\ stages' = <<>>
  /\ UNCHANGED <<vocab_cache, question_cache>>
  /\ UNCHANGED loader_vars

Next == IngestQuestionResponse \/ IngestPayload \/ IngestBatch \/ Return

Spec == Init /\ [][Next]_vars

\* ------------------------------------------------------ registry loaders
\* load_registry and load_question_registry run by threads, one statement at a
\* time.  Both are the same code over their own module-level _registry_cache.

\* The registry a loader's configuration file describes.
ConfigRegistry(kind) ==
  IF kind = "vocabulary" THEN VocabularyRegistry ELSE QuestionMappingRegistry

\* from_file: the registry read from path, or FileNotFoundError.
from_file(kind, path) ==
  IF path = "missing"
  THEN Raise("FileNotFoundError",
             <<IF kind = "vocabulary" THEN "Vocabulary registry not found at "
               ELSE "Question mapping config not found at ", path>>)
  ELSE Ok(ConfigRegistry(kind))

\* A loader that binds the cache to the new instance before filling it.
load_steps_publish_first == <<"check", "open", "alloc", "store", "populate", "return">>

\* A loader without the "is None" test: every call builds a registry.
load_steps_reload == <<"open", "alloc", "populate", "store", "return">>

\* The steps of a loader, in program order: the "is None" test; from_file's
\* existence test and read; the instance created and then filled by its
\* constructor; the assignment to _registry_cache; the return of _registry_cache.
load_steps == <<"check", "open", "alloc", "populate", "store", "return">>

\* Thread t is about to run this step.
AtStep(t, step) == th[t].pc \in DOMAIN load_steps /\ load_steps[th[t].pc] = step

IndexOf(step) == CHOOSE i \in DOMAIN load_steps : load_steps[i] = step

\* The pc of a call that has returned or raised.
Finished == Len(load_steps) + 1

\* What a module's _registry_cache holds, given the bindings and the instances.
View(kind, b, h) ==
  IF b[kind] = 0 THEN Unloaded ELSE [loaded |-> TRUE, registry |-> h[kind][b[kind]].registry]

\* Both caches follow the bindings and the instances.
CachesFollow ==
  /\ vocab_cache' = View("vocabulary", bound', heap')
  /\ question_cache' = View("question", bound', heap')
  /\ UNCHANGED call_vars

\* A thread calls load_registry(path) or load_question_registry(path).  The two
\* loaders share no variable, so calls that overlap are calls of the same loader.
LoadCall(t) ==
  /\ th[t].pc = 0
  /\ \E kind \in Kinds, path \in {"config", "missing"} :
       /\ \A u \in Threads : th[u].pc = 0 \/ th[u].kind = kind
       /\ th' = [th EXCEPT ![t] = [NoLoad EXCEPT !.pc = 1, !.kind = kind, !.path = path]]
  /\ UNCHANGED <<heap, bound>>
  /\ CachesFollow

\* if _registry_cache is None:
Check(t) ==
  /\ AtStep(t, "check")
  /\ th' = [th EXCEPT ![t].saw_none = (bound[th[t].kind] = 0),
                      ![t].pc = IF bound[th[t].kind] = 0 THEN th[t].pc + 1
                                ELSE IndexOf("return")]
  /\ UNCHANGED <<heap, bound>>
  /\ CachesFollow

\* from_file: the existence test and the read of the file.
Open(t) ==
  /\ AtStep(t, "open")
  /\ th' = [th EXCEPT ![t].attempted = TRUE,
                      ![t].exc = from_file(th[t].kind, th[t].path).exc,
                      ![t].pc = IF from_file(th[t].kind, th[t].path).exc # ""
                                THEN Finished ELSE th[t].pc + 1]
  /\ UNCHANGED <<heap, bound>>
  /\ CachesFollow

\* cls(...): the new instance exists, its fields not yet assigned.
Alloc(t) ==
  /\ AtStep(t, "alloc")
  /\ heap' = [heap EXCEPT ![th[t].kind][t] =
                [made |-> TRUE, complete |-> FALSE, registry |-> <<>>]]
  /\ th' = [th EXCEPT ![t].pc = th[t].pc + 1]
  /\ UNCHANGED bound
  /\ CachesFollow

\* __init__ assigns the fields; from_file returns the instance.
Populate(t) ==
  /\ AtStep(t, "populate")
  /\ heap' = [heap EXCEPT ![th[t].kind][t] =
                [made |-> TRUE, complete |-> TRUE,
                 registry |-> from_file(th[t].kind, th[t].path).val]]
  /\ th' = [th EXCEPT ![t].pc = th[t].pc + 1]
  /\ UNCHANGED bound
  /\ CachesFollow

\* _registry_cache = <the instance>
Store(t) ==
  /\ AtStep(t, "store")
  /\ bound' = [bound EXCEPT ![th[t].kind] = t]
  /\ th' = [th EXCEPT ![t].pc = th[t].pc + 1]
  /\ UNCHANGED heap
  /\ CachesFollow

\* return _registry_cache: ret is the instance returned, ret_built tells
\* whether it was a built registry when the caller received it.
ReturnCache(t) ==
  /\ AtStep(t, "return")
  /\ th' = [th EXCEPT ![t].ret = bound[th[t].kind],
                      ![t].ret_built = /\ bound[th[t].kind] # 0
                                       /\ heap[th[t].kind][bound[th[t].kind]].complete,
                      ![t].pc = th[t].pc + 1]
  /\ UNCHANGED <<heap, bound>>
  /\ CachesFollow

\* The caller takes the outcome; the thread is free for its next call.
Finish(t) ==
  /\ th[t].pc = Finished
  /\ th' = [th EXCEPT ![t] = NoLoad]
  /\ UNCHANGED <<heap, bound>>
  /\ CachesFollow

LoaderNext ==
  \E t \in Threads :
    \/ LoadCall(t)
    \/ Check(t)
    \/ Open(t)
    \/ Alloc(t)
    \/ Populate(t)
    \/ Store(t)
    \/ ReturnCache(t)
    \/ Finish(t)

\* Threads calling the loaders concurrently.
LoaderSpec == Init /\ [][LoaderNext]_vars

\* A call starts only when no other call is running.
SequentialLoadCall(t) == (\A u \in Threads : th[u].pc = 0) /\ LoadCall(t)

SequentialNext ==
  \E t \in Threads :
    \/ SequentialLoadCall(t)
    \/ Check(t)
    \/ Open(t)
    \/ Alloc(t)
    \/ Populate(t)
    \/ Store(t)
    \/ ReturnCache(t)
    \/ Finish(t)

\* The loaders called one after another.
SequentialSpec == Init /\ [][SequentialNext]_vars

\* ------------------------------------------------- functions called directly
\* The public functions of the pipeline called on their own, each on inputs
\* drawn from the sets below; call holds the arguments and out the outcome.

\* A registry holding the instruments named in ids, and an instrument without
\* questions when blank is set.
RegistryOf(ids, blank) ==
  [version |-> "test",
   instruments |-> [i \in ids \cup (IF blank THEN {"blank"} ELSE {}) |->
                      IF i = "blank" THEN EmptyDict ELSE Instruments[i]]]

Registries == {RegistryOf(ids, blank) : ids \in SUBSET DOMAIN Instruments, blank \in BOOLEAN}

GetQuestion ==
  \E registry \in Registries,
     instrument_id \in DOMAIN Instruments \cup {"blank", "not_real"},
     question_id \in {k[2] : k \in QuestionKeys} \cup {"not_real"} :
    /\ Apply([name |-> "get_question", registry |-> registry,
              instrument_id |-> instrument_id, question_id |-> question_id],
             Effect(get_question(registry, instrument_id, question_id), <<>>, <<>>, <<>>))
    /\ UNCHANGED <<vocab_cache, question_cache>>

\* A fragment of a payload: None stands for a key the payload does not have.
ChoiceFragments ==
  {None, EmptyDict, [id |-> StrV("sleep_hygiene")], [modality |-> StrV("sleep")],
   [modality |-> StrV("invalid_modality")]}

ChanceFragments == {None, EmptyDict, [domain |-> StrV("housing")], [domain |-> StrV("mars")]}

\* Observation fragments: each of the three checked fields absent, in the
\* vocabulary or outside it.
ObservationCases ==
  {[k \in {f \in {"observation_type", "choice_modality", "chance_domain"} : sel[f] # ""} |->
      StrV(sel[k])] :
     sel \in [observation_type : {"", "self_report", "bogus"},
              choice_modality : {"", "sleep", "nap"},
              chance_domain : {"", "housing", "mars"}]}

ObservationFragments ==
  {None, EmptyDict, [value |-> IntV(1)]}
    \cup {o \in ObservationCases :
            "observation_type" \in DOMAIN o /\ "chance_domain" \notin DOMAIN o}

MetricFragments ==
  {None, EmptyDict, [metric_type |-> StrV("capacity_score")], [metric_type |-> StrV("iq")]}

FacetFragments ==
  {None, [label |-> StrV("x")], [facet_type |-> StrV("choice")], [facet_type |-> StrV("mood")]}

InterventionFragments ==
  {None, EmptyDict, [note |-> StrV("x")], [effort_level |-> StrV("medium")],
   [effort_level |-> StrV("heroic")]}

\* The payload with the given fragments; a None fragment leaves its key out.
PayloadOf(choice, chance, observation, metric, facet, intervention) ==
  LET parts == [choice |-> choice, chance |-> chance, observation |-> observation,
                metric |-> metric, facet |-> facet, intervention |-> intervention]
  IN  [k \in {f \in DOMAIN parts : parts[f] # None} |-> parts[k]]

\* The payload of test_validate_payload_happy_path.
HappyPayload ==
  PayloadOf([modality |-> StrV("sleep")], [domain |-> StrV("housing")],
            [observation_type |-> StrV("self_report"), choice_modality |-> StrV("sleep")],
            [metric_type |-> StrV("capacity_score")], [facet_type |-> StrV("choice")],
            [effort_level |-> StrV("medium")])

\* The payloads validate_payload is called on: up to two fragments of any
\* kind, and the payload with all six.
ValidatedPayloads ==
  {HappyPayload} \cup
  {p \in {PayloadOf(choice, chance, observation, metric, facet, intervention) :
            choice \in ChoiceFragments, chance \in ChanceFragments,
            observation \in ObservationFragments, metric \in MetricFragments,
            facet \in FacetFragments, intervention \in InterventionFragments} :
     Cardinality(DOMAIN p) \in {0, 1, 2}}

ValidatePayload ==
  \E payload \in ValidatedPayloads :
    /\ Apply([name |-> "validate_payload", payload |-> payload],
             Effect(validate_payload(vocab_cache, payload), <<>>, <<>>, <<>>))
    /\ vocab_cache' = load_registry(vocab_cache)
    /\ UNCHANGED question_cache

ValidateObservationPayload ==
  \E payload \in ObservationCases :
    /\ Apply([name |-> "validate_observation_payload", payload |-> payload],
             Effect(validate_observation_payload(VocabularyRegistry, payload),
                    <<>>, <<>>, <<>>))
    /\ UNCHANGED <<vocab_cache, question_cache>>

\* The caller's extra_metadata mapping when map_response_to_payload has ended:
\* the merge is the only place that touches it, reached once the transform
\* has returned.
ExtraMetadataAfter(qcache, vcache, instrument_id, question_id, answer, extra_metadata) ==
  Bind(get_question(load_question_registry(qcache).registry, instrument_id, question_id),
       LAMBDA looked :
  IF looked.exc # "" THEN extra_metadata
  ELSE IF validate_observation_type(load_registry(vcache).registry,
                                    StrV(looked.val.observation_type)).exc # ""
  THEN extra_metadata
  ELSE Bind(_apply_transforms(looked.val, answer), LAMBDA transformed :
       IF transformed.exc # "" THEN extra_metadata
       ELSE MergeMetadata(extra_metadata, transformed.val.metadata).extra_metadata))

MapResponseToPayload ==
  \E key \in QuestionCalls, answer \in Answers, recorded_at \in RecordedAts,
     metadata \in Metadatas :
    /\ Apply([name |-> "map_response_to_payload", instrument_id |-> key[1],
              question_id |-> key[2], answer |-> answer, recorded_at |-> recorded_at,
              metadata |-> metadata,
              metadata_after |-> ExtraMetadataAfter(question_cache, vocab_cache, key[1],
                                                    key[2], answer, metadata)],
             Effect(map_response_to_payload(question_cache, vocab_cache, key[1], key[2],
                                            answer, recorded_at, metadata),
                    <<>>, <<>>, <<>>))
    /\ question_cache' = load_question_registry(question_cache)
    /\ vocab_cache' = load_registry(vocab_cache)

ScoreMapping == [x \in {"4"} |-> FloatV(700000)]

OptionScores == [x \in {"stable", "4"} |-> IF x = "4" THEN FloatV(250000) ELSE FloatV(1000000)]

\* The transforms mappings of the questions _apply_transforms is called on.
TransformSets ==
  {EmptyDict,
   [score_mapping |-> EmptyDict],
   [score_mapping |-> ScoreMapping],
   [score_mapping |-> ScoreMapping, store_raw |-> BoolV(TRUE)],
   [score_mapping |-> ScoreMapping, store_raw |-> BoolV(FALSE)],
   [option_scores |-> EmptyDict],
   [option_scores |-> OptionScores],
   [conversion_factor |-> FloatV(236588), input_unit |-> StrV("cups"),
    output_unit |-> StrV("litres")],
   [conversion_factor |-> FloatV(236588), input_unit |-> StrV("cups")],
   [conversion_factor |-> IntV(2), store_raw |-> BoolV(TRUE)],
   [conversion_factor |-> IntV(0)],
   [conversion_factor |-> StrV("2"), output_unit |-> StrV("litres")],
   [conversion_factor |-> None, input_unit |-> StrV("cups")],
   [conversion_factor |-> StrV("abc")],
   [input_unit |-> StrV("cups")],
   [store_raw |-> BoolV(TRUE)],
   [tag |-> StrV("journal")],
   [raw_text |-> StrV("fixed")]}

ResponseTypes == {"likert", "likert_5", "multiple_choice", "numeric", "free_text", "unknown"}

TransformQuestions ==
  {QuestionInfo("", response_type, "survey",
                TargetInfo("choice", "sleep_hygiene", StrV("sleep"), None), transforms) :
     response_type \in ResponseTypes, transforms \in TransformSets}

TransformAnswers == Answers \cup {StrV("4"), BoolV(TRUE)}

ApplyTransforms ==
  \E question \in TransformQuestions, answer \in TransformAnswers :
    /\ Apply([name |-> "_apply_transforms", question |-> question, answer |-> answer],
             Effect(_apply_transforms(question, answer), <<>>, <<>>, <<>>))
    /\ UNCHANGED <<vocab_cache, question_cache>>

FunctionNext ==
  \/ GetQuestion
  \/ ValidatePayload
  \/ ValidateObservationPayload
  \/ MapResponseToPayload
  \/ ApplyTransforms
  \/ Return

FunctionSpec == Init /\ [][FunctionNext]_vars

\* ---------------------------------------------------------- ingestion router
\* The FastAPI handlers of /ingestion, with the service configured.  The body
\* models have been validated when a handler runs: recorded_at is a datetime
\* or None.

HTTP_202_ACCEPTED == 202

HTTP_502_BAD_GATEWAY == 502

HTTPException(status_code, detail) ==
  [exc |-> "HTTPException", msg |-> detail, val |-> [status_code |-> status_code]]

\* IngestionResponse.from_result
from_result(result) ==
  [status |-> result.status, payload |-> result.payload, reason |-> result.reason]

\* The try / except Exception of a handler around the service call that had
\* the effect served; body is the response built from the value it returned.
\* {exc} in the detail is str(exc), which shows a KeyError's message as its repr.
Handle(served, failed, body) ==
  Effect(IF served.out.exc # ""
         THEN HTTPException(HTTP_502_BAD_GATEWAY,
                            <<failed>> \o (IF IsInstance(served.out.exc, "KeyError")
                                           THEN <<"\"">> \o served.out.msg \o <<"\"">>
                                           ELSE served.out.msg))
         ELSE Ok([status_code |-> HTTP_202_ACCEPTED, body |-> body]),
         served.log, served.calls, served.stages)

PostQuestionResponse ==
  \E key \in QuestionCalls, answer \in Answers, recorded_at \in {r \in RecordedAts : r.t \in {"none", "datetime"}},
     metadata \in Metadatas, writer_ok \in BOOLEAN :
    /\ Apply(Call("POST /ingestion/question-response", key, answer, recorded_at, metadata,
                  <<>>, writer_ok),
             Bind(ingest_question_response(question_cache, vocab_cache, key[1], key[2],
                                           answer, recorded_at, metadata, writer_ok),
                  LAMBDA served : Handle(served, "Failed to process question response: ",
                                         from_result(served.out.val))))
    /\ question_cache' = load_question_registry(question_cache)
    /\ vocab_cache' = load_registry(vocab_cache)

PostPayload ==
  \E payload \in Payloads, writer_ok \in BOOLEAN :
    /\ Apply(Call("POST /ingestion/payload", <<"", "">>, None, None, EmptyDict,
                  <<payload>>, writer_ok),
             Bind(ingest_payload(vocab_cache, payload, writer_ok),
                  LAMBDA served : Handle(served, "Failed to ingest payload: ",
                                         from_result(served.out.val))))
    /\ vocab_cache' = load_registry(vocab_cache)
    /\ UNCHANGED question_cache

PostBatch ==
  \E payloads \in Batches, writer_ok \in BOOLEAN :
    /\ Apply(Call("POST /ingestion/batch", <<"", "">>, None, None, EmptyDict,
                  payloads, writer_ok),
             Bind(ingest_batch(vocab_cache, payloads, writer_ok),
                  LAMBDA served : Handle(served, "Failed to ingest batch payloads: ",
                                         [i \in DOMAIN served.out.val |->
                                            from_result(served.out.val[i])])))
    /\ vocab_cache' = IF payloads = <<>> THEN vocab_cache ELSE load_registry(vocab_cache)
    /\ UNCHANGED question_cache

RouterNext == PostQuestionResponse \/ PostPayload \/ PostBatch \/ Return

RouterSpec == Init /\ [][RouterNext]_vars

\* ===================================================================== claims
Done(name) == pc = "done" /\ call.name = name

\* validate_payload returns for payload.
Valid(payload) == validate_payload(vocab_cache, payload).exc = ""

\* What map_response_to_payload gives for the arguments of the finished call.
Mapped ==
  map_response_to_payload(question_cache, vocab_cache, call.instrument_id, call.question_id,
                          call.answer, call.recorded_at, call.metadata)

\* The finished call returned an IngestionResult with this status.
Returned(status) == out.exc = "" /\ out.val.status = status

\* The finished call's identifiers name a question of the registry.
Registered ==
  /\ call.instrument_id \in DOMAIN Instruments
  /\ call.question_id \in DOMAIN Instruments[call.instrument_id]

CalledQuestion == Instruments[call.instrument_id][call.question_id]

\* C1: every payload the GraphWriter receives from a service call, through
\* write or write_many, passes validate_payload; a payload that fails
\* vocabulary validation is never handed to the writer.  (The service keeps no
\* state between calls, so this holds after any sequence of calls.)
C1_WriterReceivesOnlyValid ==
  \A i \in DOMAIN Received(calls) : Valid(Received(calls)[i])

C1_Witness ==
  /\ Done("ingest_batch")
  /\ Len(Received(calls)) >= 2
  /\ \E i \in DOMAIN call.payloads : ~Valid(call.payloads[i])

\* C2: when map_response_to_payload raises ResponseMappingError,
\* ingest_question_response returns status "rejected" with a reason that begins
\* "mapping_error: " and an empty payload; nothing is raised and the
\* GraphWriter is not called.
C2_MappingErrorRejected ==
  (Done("ingest_question_response") /\ Mapped.exc = "ResponseMappingError") =>
    /\ Returned("rejected")
    /\ out.val.reason.some
    /\ Head(out.val.reason.text) = "mapping_error: "
    /\ out.val.reason.text = <<"mapping_error: ">> \o Mapped.msg
    /\ out.val.payload = EmptyDict
    /\ calls = <<>>

C2_Witness ==
  /\ Done("ingest_question_response")
  /\ Mapped.exc = "ResponseMappingError"
  /\ Head(Mapped.msg) = "Unsupported timestamp value "
  /\ Returned("rejected")

\* C3: for a payload that fails vocabulary validation, ingest_payload returns
\* status "rejected" with a reason that begins "vocabulary_error: ", echoes
\* the input payload unchanged and makes no GraphWriter call.
C3_VocabularyErrorRejected ==
  (Done("ingest_payload") /\ ~Valid(call.payloads[1])) =>
    /\ Returned("rejected")
    /\ out.val.reason.some
    /\ Head(out.val.reason.text) = "vocabulary_error: "
    /\ out.val.payload = call.payloads[1]
    /\ calls = <<>>

C3_Witness ==
  /\ Done("ingest_payload")
  /\ call.payloads[1] = BadChoicePayload
  /\ call.writer_ok
  /\ Returned("rejected")

\* C4: ingest_question_response and ingest_payload return "accepted" only
\* after the one write call for that payload returned: the steps are mapped,
\* validated, written, accepted in this order, with exactly one successful
\* write of the accepted payload; a rejection ends the call with no later step.
C4_AcceptedOnlyAfterWrite ==
  (pc = "done" /\ call.name \in {"ingest_question_response", "ingest_payload"}
     /\ out.exc = "") =>
    LET prefix == IF call.name = "ingest_question_response" THEN <<"mapped">> ELSE <<>>
    IN  \/ /\ out.val.status = "accepted"
           /\ stages = prefix \o <<"validated", "written", "accepted">>
           /\ calls = <<WriterCall("write", <<out.val.payload>>, TRUE)>>
        \/ /\ out.val.status = "rejected"
           /\ calls = <<>>
           /\ \/ stages = prefix \o <<"logged", "rejected_vocabulary">>
              \/ /\ call.name = "ingest_question_response"
                 /\ stages = <<"logged", "rejected_mapping">>

C4_Witness ==
  /\ Done("ingest_question_response")
  /\ Returned("accepted")
  /\ stages = <<"mapped", "validated", "written", "accepted">>

\* The payload the finished single-item call hands to validation, when it gets
\* that far.
SinglePayload == IF call.name = "ingest_payload" THEN call.payloads[1] ELSE Mapped.val

ReachesWriter ==
  /\ pc = "done"
  /\ \/ call.name = "ingest_payload"
     \/ call.name = "ingest_question_response" /\ Mapped.exc = ""
  /\ Valid(SinglePayload)

\* C5: when GraphWriter.write fails for a vocabulary-valid payload,
\* ingest_payload (and ingest_question_response through it) raises the
\* writer's exception unchanged: no IngestionResult is returned and no
\* rejection is logged.
C5_WriteFailurePropagates ==
  (ReachesWriter /\ ~call.writer_ok) =>
    /\ out = write(SinglePayload, FALSE)
    /\ out.exc = "GraphWriteError"
    /\ log = <<>>
    /\ calls = <<WriterCall("write", <<SinglePayload>>, FALSE)>>

C5_Witness ==
  /\ Done("ingest_question_response")
  /\ ReachesWriter
  /\ ~call.writer_ok
  /\ out.exc = "GraphWriteError"

\* C6: when the writer does not fail, ingest_batch returns one result per
\* payload, in input order; result i carries payload i and the status
\* ingest_payload gives payload i on its own.
C6_BatchMatchesSingle ==
  (Done("ingest_batch") /\ call.writer_ok) =>
    /\ out.exc = ""
    /\ Len(out.val) = Len(call.payloads)
    /\ \A i \in DOMAIN call.payloads :
         /\ out.val[i].payload = call.payloads[i]
         /\ out.val[i].status = ingest_payload(vocab_cache, call.payloads[i], TRUE).out.val.status
         /\ out.val[i].reason = ingest_payload(vocab_cache, call.payloads[i], TRUE).out.val.reason

C6_Witness ==
  /\ Done("ingest_batch")
  /\ call.writer_ok
  /\ Len(call.payloads) = 3
  /\ out.exc = ""
  /\ out.val[1].status = "accepted"
  /\ out.val[2].status = "rejected"
  /\ out.val[3].status = "accepted"

\* The vocabulary-valid payloads of the batch, in input order.
ValidOf(payloads) == SelectSeq(payloads, LAMBDA p : Valid(p))

\* C7: ingest_batch calls write_many once when some item is vocabulary-valid
\* and not at all otherwise (the empty batch included); the call receives
\* exactly the valid payloads in input order; write is never called.
C7_OneWriteManyOfValid ==
  Done("ingest_batch") =>
    IF ValidOf(call.payloads) # <<>>
    THEN /\ Len(calls) = 1
         /\ calls[1].op = "write_many"
         /\ calls[1].payloads = ValidOf(call.payloads)
    ELSE calls = <<>>

C7_Witness ==
  /\ Done("ingest_batch")
  /\ Len(call.payloads) = 3
  /\ Len(calls) = 1
  /\ Len(calls[1].payloads) = 2
  /\ calls[1].payloads[1] # calls[1].payloads[2]

WriterSteps == {"written", "write_failed"}

ItemSteps == {"accepted", "rejected_vocabulary"}

C10_VocabularyErrorNeverEscapes ==
  pc = "done" =>
    /\ out.exc # "VocabularyError"
    /\ (/\ call.name = "ingest_question_response"
        /\ Registered
        /\ CalledQuestion.observation_type \notin VocabularyRegistry.observation_types) =>
         /\ Returned("rejected")
         /\ Head(out.val.reason.text) = "vocabulary_error: "

\* C11: for a pair that is not in the registry get_question raises
\* QuestionMappingError and never ResponseMappingError; an absent instrument
\* is reported as "Unknown instrument" whatever the question_id, "Unknown
\* question" is reported only when the instrument exists, and for a pair that
\* is present the stored QuestionInfo is returned.
C11_LookupErrorKind ==
  Done("get_question") =>
    IF call.instrument_id \notin DOMAIN call.registry.instruments
    THEN /\ out.exc = "QuestionMappingError"
         /\ out.msg = <<"Unknown instrument '", call.instrument_id, "'">>
    ELSE IF call.question_id \notin DOMAIN call.registry.instruments[call.instrument_id]
    THEN /\ out.exc = "QuestionMappingError"
         /\ ~IsInstance(out.exc, "ResponseMappingError")
         /\ Head(out.msg) = "Unknown question '"
         /\ out.msg[2] = call.question_id
    ELSE out = Ok(call.registry.instruments[call.instrument_id][call.question_id])

C11_Witness ==
  /\ Done("get_question")
  /\ call.instrument_id = "not_real"
  /\ \E i \in DOMAIN call.registry.instruments :
       call.question_id \in DOMAIN call.registry.instruments[i]
  /\ out.exc = "QuestionMappingError"

\* The registries of this kind constructed so far.
Built(kind) == {t \in Threads : heap[kind][t].made}

\* Thread t's loader call has returned a registry.
LoadReturned(t) == th[t].pc = Finished /\ th[t].exc = ""

\* C12: under any interleaving of concurrent first calls to load_registry
\* (and to load_question_registry) the registry is constructed at most once
\* and every caller receives the same instance.
C12_SingleFlight ==
  /\ \A kind \in Kinds : Cardinality(Built(kind)) <= 1
  /\ \A t, u \in Threads :
       (LoadReturned(t) /\ LoadReturned(u) /\ th[t].kind = th[u].kind) =>
         th[t].ret = th[u].ret

\* C13: under any interleaving, each module-level cache is unset or bound to a
\* completely built registry, and every value a loader returns is a completely
\* built registry, never None and never an instance still being filled.
C13_CacheUnsetOrBuilt ==
  /\ vocab_cache \in {Unloaded, load_registry(Unloaded)}
  /\ question_cache \in {Unloaded, load_question_registry(Unloaded)}
  /\ \A kind \in Kinds :
       bound[kind] # 0 => heap[kind][bound[kind]].complete
  /\ \A t \in Threads :
       LoadReturned(t) =>
         /\ th[t].ret # 0
         /\ th[t].ret_built
         /\ heap[th[t].kind][th[t].ret].registry = ConfigRegistry(th[t].kind)

C13_Witness ==
  \E t, u \in Threads :
    /\ LoadReturned(t)
    /\ th[t].ret_built
    /\ th[u].kind = th[t].kind
    /\ AtStep(u, "populate")
    /\ ~heap[th[u].kind][u].complete

\* C14: when the loaders are called one after another, a registry is built at
\* most once; once a call has returned, every later call returns that cached
\* instance without going to the configuration source, whatever its path
\* argument; a call that fails on a missing file leaves the cache unset, and a
\* call that finds the cache unset goes to the configuration source.
C14_CachedAfterFirstLoad ==
  /\ \A kind \in Kinds : Cardinality(Built(kind)) <= 1
  /\ \A t \in Threads :
       th[t].pc = Finished =>
         IF th[t].exc = ""
         THEN /\ th[t].ret \in Built(th[t].kind)
              /\ th[t].ret = bound[th[t].kind]
              /\ th[t].attempted <=> th[t].saw_none
              /\ th[t].attempted => th[t].path = "config"
         ELSE /\ th[t].exc = "FileNotFoundError"
              /\ th[t].saw_none
              /\ th[t].attempted
              /\ th[t].path = "missing"
              /\ bound[th[t].kind] = 0
              /\ Built(th[t].kind) = {}

C14_Witness ==
  \E t \in Threads :
    /\ LoadReturned(t)
    /\ th[t].path = "missing"
    /\ ~th[t].attempted
    /\ th[t].ret = bound[th[t].kind]

\* The fragment has the field and its value is an allowed one.
FieldIn(fragment, field, allowed) ==
  field \in DOMAIN fragment /\ Str(fragment[field]) \in allowed

\* The fragment does not have the field, or its value is an allowed one.
FieldInIfGiven(fragment, field, allowed) ==
  field \in DOMAIN fragment => Str(fragment[field]) \in allowed

\* C15: validate_payload succeeds exactly when every fragment present in the
\* payload satisfies its rule (choice.modality, chance.domain,
\* observation.observation_type with its optional choice_modality and
\* chance_domain, metric.metric_type, facet.facet_type each in its allowed set,
\* intervention.effort_level in effort_levels if given); a present fragment
\* that is empty or lacks its required field is rejected, not skipped.
C15_PresentFragmentsChecked ==
  Done("validate_payload") =>
    LET p == call.payload
        r == VocabularyRegistry
    IN  (out.exc = "") <=>
          /\ "choice" \in DOMAIN p => FieldIn(p.choice, "modality", r.choice_modalities)
          /\ "chance" \in DOMAIN p => FieldIn(p.chance, "domain", r.chance_domains)
          /\ "observation" \in DOMAIN p =>
               /\ FieldIn(p.observation, "observation_type", r.observation_types)
               /\ FieldInIfGiven(p.observation, "choice_modality", r.choice_modalities)
               /\ FieldInIfGiven(p.observation, "chance_domain", r.chance_domains)
          /\ "metric" \in DOMAIN p => FieldIn(p.metric, "metric_type", r.metric_types)
          /\ "facet" \in DOMAIN p => FieldIn(p.facet, "facet_type", r.facet_types)
          /\ "intervention" \in DOMAIN p =>
               FieldInIfGiven(p.intervention, "effort_level", r.effort_levels)

\* The names _require gives the three fields of an observation fragment.
ObservationFieldNames == <<"observation type", "choice modality", "chance domain">>

\* The fields of the observation fragment that break their rule, by the name
\* _require gives them, in the order the fields are checked.
ViolatedFields(payload) ==
  LET r == VocabularyRegistry
      bad == <<~FieldIn(payload, "observation_type", r.observation_types),
               ~FieldInIfGiven(payload, "choice_modality", r.choice_modalities),
               ~FieldInIfGiven(payload, "chance_domain", r.chance_domains)>>
  IN  SelectSeq(ObservationFieldNames,
                LAMBDA name : \E i \in 1..3 : ObservationFieldNames[i] = name /\ bad[i])

\* The pieces of a message that are one of the three field names.
FieldsNamed(msg) ==
  SelectSeq(msg, LAMBDA piece : \E i \in 1..3 : ObservationFieldNames[i] = piece)

\* C16: validating an observation fragment checks observation_type,
\* choice_modality (if present) and chance_domain (if present) independently:
\* the one VocabularyError raised holds one message per violated field, in the
\* order observation_type, choice_modality, chance_domain, joined by "; ", and
\* nothing is raised exactly when no field is violated.
C16_AllViolationsReported ==
  Done("validate_observation_payload") =>
    LET violated == ViolatedFields(call.payload)
    IN  /\ (out.exc = "") <=> (violated = <<>>)
        /\ out.exc \in {"", "VocabularyError"}
        /\ FieldsNamed(out.msg) = violated
        /\ Len(SelectSeq(out.msg, LAMBDA piece : piece = "; "))
             = (IF violated = <<>> THEN 0 ELSE Len(violated) - 1)

C16_Witness ==
  /\ Done("validate_observation_payload")
  /\ out.exc = "VocabularyError"
  /\ FieldsNamed(out.msg) = ObservationFieldNames

TargetFragment(target, field) ==
  IF Truthy(target[field])
  THEN [x \in {"id", field} |-> IF x = "id" THEN StrV(target.id) ELSE target[field]]
  ELSE [x \in {"id"} |-> StrV(target.id)]

\* The returned payload has exactly one of choice and chance, the one named by
\* target.type, with the target's id and its modality or domain if set.
OneTargetFragment(payload, target) ==
  /\ target.type \in {"choice", "chance"}
  /\ ("choice" \in DOMAIN payload) <=> (target.type = "choice")
  /\ ("chance" \in DOMAIN payload) <=> (target.type = "chance")
  /\ target.type = "choice" => payload.choice = TargetFragment(target, "modality")
  /\ target.type = "chance" => payload.chance = TargetFragment(target, "domain")

\* C18 as stated: every payload map_response_to_payload returns has exactly
\* one of choice and chance, matching target.type; for any other target.type
\* the call fails with a ResponseMappingError naming the unsupported target
\* type and returns no payload.
C18_OneTargetFragmentOrTargetError ==
  (Done("map_response_to_payload") /\ Registered) =>
    /\ out.exc = "" => OneTargetFragment(out.val, CalledQuestion.target)
    /\ CalledQuestion.target.type \notin {"choice", "chance"} =>
         out = Raise("ResponseMappingError",
                     <<"Unsupported target type '", CalledQuestion.target.type, "'">>)

\* The steps of map_response_to_payload that precede the target fragment
\* succeed for the finished call: the observation_type check, the transform
\* and the timestamp.
StepsBeforeTargetSucceed ==
  /\ CalledQuestion.observation_type \in VocabularyRegistry.observation_types
  /\ _apply_transforms(CalledQuestion, call.answer).exc = ""
  /\ call.recorded_at = None \/ _normalise_timestamp(call.recorded_at).exc = ""

\* C18 amended: every payload map_response_to_payload returns has exactly one
\* of choice and chance, matching target.type; for any other target.type the
\* call returns no payload: it fails with the error of the observation_type
\* check, the transform or the timestamp when one of these fails, and otherwise
\* with a ResponseMappingError naming the unsupported target type.
C18_OneTargetFragmentOrError ==
  (Done("map_response_to_payload") /\ Registered) =>
    /\ out.exc = "" => OneTargetFragment(out.val, CalledQuestion.target)
    /\ CalledQuestion.target.type \notin {"choice", "chance"} =>
         /\ out.exc # ""
         /\ StepsBeforeTargetSucceed =>
              out = Raise("ResponseMappingError",
                          <<"Unsupported target type '", CalledQuestion.target.type, "'">>)
         /\ ~StepsBeforeTargetSucceed => Head(out.msg) # "Unsupported target type '"

C18_Witness ==
  /\ Done("map_response_to_payload")
  /\ Registered
  /\ CalledQuestion.target.type = "unknown"
  /\ StepsBeforeTargetSucceed
  /\ call.recorded_at # None
  /\ Head(out.msg) = "Unsupported target type '"

\* C19: for likert-family and multiple_choice questions the transform looks
\* str(answer) up in score_mapping / option_scores: an absent key (a missing or
\* empty table included) is a ResponseMappingError; a present key gives value
\* = the mapped score, no units and metadata.score = that score, plus
\* raw_value = answer for likert exactly when store_raw is truthy, and
\* selected_option = str(answer) for multiple_choice.
C19_ScoreLookup ==
  (/\ Done("_apply_transforms")
   /\ \/ StartsWithLikert(call.question.response_type)
      \/ call.question.response_type = "multiple_choice") =>
    LET likert == StartsWithLikert(call.question.response_type)
        transforms == call.question.transforms
        name == IF likert THEN "score_mapping" ELSE "option_scores"
        table == IF name \in DOMAIN transforms THEN transforms[name] ELSE EmptyDict
        key == Str(call.answer)
    IN  IF key \notin DOMAIN table
        THEN out.exc = "ResponseMappingError" /\ out.msg[2] = key
        ELSE /\ out.exc = ""
             /\ out.val.value = table[key]
             /\ out.val.units = None
             /\ out.val.metadata["score"] = table[key]
             /\ IF likert
                THEN /\ DOMAIN out.val.metadata =
                          {"score"} \cup (IF Truthy(Get(transforms, "store_raw"))
                                          THEN {"raw_value"} ELSE {})
                     /\ "raw_value" \in DOMAIN out.val.metadata =>
                          out.val.metadata["raw_value"] = call.answer
                ELSE /\ DOMAIN out.val.metadata = {"score", "selected_option"}
                     /\ out.val.metadata["selected_option"] = StrV(key)

C19_Witness ==
  /\ Done("_apply_transforms")
  /\ call.question.response_type = "likert_5"
  /\ call.answer = IntV(4)
  /\ out.exc = ""
  /\ out.val.value = FloatV(700000)
  /\ "raw_value" \notin DOMAIN out.val.metadata

\* The conversion_factor of the question is absent or a number.
FactorNumericOrAbsent(transforms) ==
  Get(transforms, "conversion_factor") = None
    \/ ToFloat(Get(transforms, "conversion_factor")).exc = ""

\* C20: for a numeric question (whose conversion_factor, when present, is a
\* number) an answer that float() rejects is a ResponseMappingError; otherwise,
\* with a conversion_factor the value is answer * conversion_factor, metadata
\* records conversion_factor (and input_unit if given) and the unit is
\* output_unit if set, else input_unit; without one the value is the answer
\* unchanged and metadata has neither conversion_factor nor input_unit;
\* raw_value = answer is recorded exactly when store_raw is truthy.
C20_NumericConversion ==
  (/\ Done("_apply_transforms")
   /\ call.question.response_type = "numeric"
   /\ FactorNumericOrAbsent(call.question.transforms)) =>
    LET transforms == call.question.transforms
        parsed == ToFloat(call.answer)
        factor == Get(transforms, "conversion_factor")
        md == out.val.metadata
    IN  IF parsed.exc # ""
        THEN /\ out.exc = "ResponseMappingError"
             /\ Head(out.msg) = "Expected numeric answer, received '"
        ELSE /\ out.exc = ""
             /\ ("raw_value" \in DOMAIN md) <=> Truthy(Get(transforms, "store_raw"))
             /\ "raw_value" \in DOMAIN md => md["raw_value"] = call.answer
             /\ IF factor # None
                THEN /\ parsed.val % Micro = 0
                     /\ out.val.value = FloatV((parsed.val \div Micro) * ToFloat(factor).val)
                     /\ md["conversion_factor"] = factor
                     /\ ("input_unit" \in DOMAIN md) <=> Truthy(Get(transforms, "input_unit"))
                     /\ "input_unit" \in DOMAIN md => md["input_unit"] = transforms["input_unit"]
                     /\ out.val.units = (IF Truthy(Get(transforms, "output_unit"))
                                         THEN transforms["output_unit"]
                                         ELSE Get(transforms, "input_unit"))
                ELSE /\ out.val.value = FloatV(parsed.val)
                     /\ "conversion_factor" \notin DOMAIN md
                     /\ "input_unit" \notin DOMAIN md

C20_Witness ==
  /\ Done("_apply_transforms")
  /\ call.question.response_type = "numeric"
  /\ call.answer = StrV("8")
  /\ Get(call.question.transforms, "conversion_factor") = FloatV(236588)
  /\ out.exc = ""
  /\ out.val.value = FloatV(1892704)
  /\ out.val.units = StrV("litres")

\* C21 (as stated): for a free_text question the transform never fails; value
\* is str(answer), there is no unit, and metadata holds every transforms entry
\* together with raw_text = str(answer).
C21_FreeTextRawTextIsAnswer ==
  (Done("_apply_transforms") /\ call.question.response_type = "free_text") =>
    /\ out.exc = ""
    /\ out.val.value = StrV(Str(call.answer))
    /\ out.val.units = None
    /\ DOMAIN out.val.metadata = {"raw_text"} \cup DOMAIN call.question.transforms
    /\ \A k \in DOMAIN call.question.transforms :
         out.val.metadata[k] = call.question.transforms[k]
    /\ out.val.metadata["raw_text"] = StrV(Str(call.answer))

\* C21: for a free_text question the transform never fails; value is
\* str(answer), there is no unit, and metadata is {raw_text: str(answer)}
\* updated with transforms: its keys are raw_text and those of transforms,
\* every transforms entry appears in it, and raw_text is str(answer) unless
\* transforms has its own raw_text entry.
C21_FreeTextMetadata ==
  (Done("_apply_transforms") /\ call.question.response_type = "free_text") =>
    /\ out.exc = ""
    /\ out.val.value = StrV(Str(call.answer))
    /\ out.val.units = None
    /\ DOMAIN out.val.metadata = {"raw_text"} \cup DOMAIN call.question.transforms
    /\ \A k \in DOMAIN call.question.transforms :
         out.val.metadata[k] = call.question.transforms[k]
    /\ "raw_text" \notin DOMAIN call.question.transforms =>
         out.val.metadata["raw_text"] = StrV(Str(call.answer))

C21_Witness ==
  /\ Done("_apply_transforms")
  /\ call.question.response_type = "free_text"
  /\ call.question.transforms = [raw_text |-> StrV("fixed")]
  /\ call.answer = None
  /\ out.exc = ""
  /\ out.val.value = StrV("None")
  /\ out.val.metadata = [raw_text |-> StrV("fixed")]

\* C22: the transform step either returns a (value, units, metadata) result or
\* raises ResponseMappingError and nothing else; a response_type outside
\* likert*, multiple_choice, numeric and free_text raises ResponseMappingError,
\* and so does a malformed transform parameter such as a conversion_factor
\* that is not a number.
C22_OnlyResponseMappingError ==
  Done("_apply_transforms") =>
    /\ out.exc \in {"", "ResponseMappingError"}
    /\ out.exc = "" => DOMAIN out.val = {"value", "units", "metadata"}
    /\ (/\ ~StartsWithLikert(call.question.response_type)
        /\ call.question.response_type \notin {"multiple_choice", "numeric", "free_text"}) =>
         out = Raise("ResponseMappingError",
                     <<"Unsupported response type '", call.question.response_type, "'">>)
    /\ (/\ call.question.response_type = "numeric"
        /\ ~FactorNumericOrAbsent(call.question.transforms)) =>
         out.exc = "ResponseMappingError"

\* C23: in the payload map_response_to_payload builds, observation.metadata is
\* extra_metadata overlaid by the transform's metadata: a key of both carries
\* the transform's value, a key of extra_metadata alone is kept, the caller's
\* extra_metadata is the same mapping after the call, and the metadata key is
\* left out when the merged mapping is empty.
C23_MetadataMerge ==
  (Done("map_response_to_payload") /\ out.exc = "") =>
    LET observation == out.val["observation"]
        TransformMetadata == _apply_transforms(CalledQuestion, call.answer).val.metadata
        keys == DOMAIN call.metadata \cup DOMAIN TransformMetadata
    IN  /\ call.metadata_after = call.metadata
        /\ IF keys = {} THEN "metadata" \notin DOMAIN observation
           ELSE /\ "metadata" \in DOMAIN observation
                /\ DOMAIN observation["metadata"] = keys
                /\ \A k \in keys :
                     observation["metadata"][k] =
                       IF k \in DOMAIN TransformMetadata THEN TransformMetadata[k]
                       ELSE call.metadata[k]

C23_Witness ==
  /\ Done("map_response_to_payload")
  /\ out.exc = ""
  /\ call.metadata = [score |-> IntV(1), source |-> StrV("app")]
  /\ call.question_id = "q_sleep_schedule"
  /\ out.val["observation"]["metadata"] =
       [score |-> FloatV(700000), source |-> StrV("app"), raw_value |-> IntV(4)]

\* The IngestionResults the finished call returned, in order.
ResultsOf ==
  IF pc # "done" \/ out.exc # "" THEN <<>>
  ELSE IF call.name = "ingest_batch" THEN out.val
  ELSE <<out.val>>

\* C24: every IngestionResult of ingest_question_response, ingest_payload and
\* ingest_batch has status "accepted" or "rejected" and has a reason exactly
\* when it is rejected; the reason then begins "mapping_error: " with an empty
\* payload, or "vocabulary_error: " with the payload that failed validation.
C24_ResultShape ==
  \A i \in DOMAIN ResultsOf :
    LET result == ResultsOf[i]
        ResultPayload == IF call.name = "ingest_question_response" THEN Mapped.val
                         ELSE call.payloads[i]
    IN  /\ result.status \in {"accepted", "rejected"}
        /\ result.reason.some <=> result.status = "rejected"
        /\ result.status = "rejected" =>
             \/ /\ Head(result.reason.text) = "mapping_error: "
                /\ result.payload = EmptyDict
                /\ call.name = "ingest_question_response"
                /\ Mapped.exc = "ResponseMappingError"
             \/ /\ Head(result.reason.text) = "vocabulary_error: "
                /\ result.payload = ResultPayload
                /\ ~Valid(result.payload)
        /\ result.status = "accepted" => result.payload = ResultPayload

C24_Witness ==
  /\ Done("ingest_batch")
  /\ Len(ResultsOf) = 3
  /\ ResultsOf[1].status = "rejected"
  /\ ResultsOf[1].payload = MissingModalityPayload
  /\ Head(ResultsOf[1].reason.text) = "vocabulary_error: "
  /\ ResultsOf[2].status = "accepted"
  /\ ~ResultsOf[2].reason.some
  /\ ResultsOf[3].status = "rejected"

\* The finished request failed in the question lookup.
LookupFailed ==
  get_question(QuestionMappingRegistry, call.instrument_id, call.question_id).exc
    = "QuestionMappingError"

\* C25: a question-response request that names an unknown instrument or an
\* unknown question is answered with a client error (a 4xx status), unlike a
\* writer failure, which is answered with 502.
C25_LookupErrorIsClientError ==
  Done("POST /ingestion/question-response") =>
    /\ LookupFailed =>
         /\ out.exc = "HTTPException"
         /\ out.val.status_code \in 400..499
    /\ (~LookupFailed /\ Mapped.exc = "" /\ Valid(Mapped.val) /\ ~call.writer_ok) =>
         /\ out.exc = "HTTPException"
         /\ out.val.status_code = HTTP_502_BAD_GATEWAY

\* C26: map_response_to_payload checks the question's observation_type against
\* the vocabulary before it runs the transform: for a question whose
\* observation_type is not in observation_types the call fails with the
\* vocabulary error for that type whatever the answer, also when the answer
\* would fail the transform; and a failed lookup comes before both.
C26_ObservationTypeCheckedFirst ==
  Done("map_response_to_payload") =>
    /\ LookupFailed =>
         out = get_question(QuestionMappingRegistry, call.instrument_id, call.question_id)
    /\ (/\ ~LookupFailed
        /\ CalledQuestion.observation_type \notin VocabularyRegistry.observation_types) =>
         /\ out.exc = "VocabularyError"
         /\ out.msg[1] = "Unexpected "
         /\ out.msg[2] = "observation type"
         /\ out.msg[4] = CalledQuestion.observation_type

C26_Witness ==
  /\ Done("map_response_to_payload")
  /\ call.question_id = "q_bad_obs_type"
  /\ call.answer = StrV("stable")
  /\ _apply_transforms(CalledQuestion, call.answer).exc = "ResponseMappingError"
  /\ out.exc = "VocabularyError"

\* The log records of the payloads that fail validation, in order.
RECURSIVE PayloadRejections(_)
PayloadRejections(payloads) ==
  IF payloads = <<>> THEN <<>>
  ELSE (IF Valid(Head(payloads)) THEN <<>>
        ELSE <<[event |-> "ingestion_rejected",
                reason |-> <<"vocabulary_error: ">>
                             \o validate_payload(vocab_cache, Head(payloads)).msg,
                instrument_id |-> None, question_id |-> None, answer |-> None,
                payload |-> Head(payloads)]>>)
         \o PayloadRejections(Tail(payloads))

\* The rejection records the finished call owes: one per rejected item, in
\* order, with the reason and the identifiers and answer, or the payload.
RejectionsOwed ==
  IF call.name # "ingest_question_response" THEN PayloadRejections(call.payloads)
  ELSE IF Mapped.exc = "ResponseMappingError"
  THEN <<[event |-> "ingestion_rejected", reason |-> <<"mapping_error: ">> \o Mapped.msg,
          instrument_id |-> StrV(call.instrument_id),
          question_id |-> StrV(call.question_id), answer |-> call.answer,
          payload |-> None]>>
  ELSE IF Mapped.exc # "" THEN <<>>
  ELSE PayloadRejections(<<Mapped.val>>)

\* Each _log_rejection call is followed at once by the rejected result, and
\* no GraphWriter call comes before it.
LoggedBeforeResult ==
  \A i \in DOMAIN stages :
    stages[i] = "logged" =>
      /\ i < Len(stages)
      /\ stages[i + 1] \in {"rejected_vocabulary", "rejected_mapping"}
      /\ \A j \in 1..i : stages[j] \notin WriterSteps

\* C27 (as stated): every rejection is logged exactly once, before the
\* rejected result is returned and, in ingest_batch, before write_many, with
\* the reason and the identifiers and answer or the payload; accepted items
\* produce no record, and a call that fails in the writer has logged nothing.
C27_RejectionsLoggedOnce ==
  (pc = "done" /\ call.name \in {"ingest_question_response", "ingest_payload", "ingest_batch"}) =>
    /\ log = RejectionsOwed
    /\ LoggedBeforeResult
    /\ out.exc = "GraphWriteError" => log = <<>>

\* C27: every rejection is logged exactly once, before the rejected result is
\* built and, in ingest_batch, before write_many is called, with the reason
\* and the identifiers and answer or the payload; accepted items and the
\* writer's failure add no record, so a call that fails in the writer has
\* logged exactly the items it rejected before the write (none for
\* ingest_question_response and ingest_payload).
C27_RejectionsLogged ==
  (pc = "done" /\ call.name \in {"ingest_question_response", "ingest_payload", "ingest_batch"}) =>
    /\ log = RejectionsOwed
    /\ LoggedBeforeResult
    /\ (out.exc = "GraphWriteError" /\ call.name # "ingest_batch") => log = <<>>
    /\ out.exc = "" => Len(log) = Cardinality({i \in DOMAIN ResultsOf :
                                                ResultsOf[i].status = "rejected"})

C27_Witness ==
  /\ Done("ingest_batch")
  /\ out.exc = "GraphWriteError"
  /\ call.payloads = <<BadObservationPayload, ValidPayload, MissingModalityPayload>>
  /\ Len(log) = 2
  /\ log[1].payload = BadObservationPayload
  /\ stages = <<"logged", "rejected_vocabulary", "accepted", "logged",
                "rejected_vocabulary", "write_failed">>

\* The mutable objects a value refers to, through any depth of dicts; a scalar
\* is a record of t, n and s.
RECURSIVE Refs(_)
Refs(v) ==
  IF DOMAIN v = {"t", "n", "s"} THEN (IF v.t = "list" THEN {v.n} ELSE {})
  ELSE UNION {Refs(v[k]) : k \in DOMAIN v}

\* The mutable objects the question registry owns inside its transforms.
RegistryRefs ==
  UNION {UNION {Refs(Instruments[i][q].transforms) : q \in DOMAIN Instruments[i]} :
           i \in DOMAIN Instruments}

\* C28: no sequence of ingestion operations changes what the cached
\* registries hold: once loaded they are the six allowed-value sets and the
\* QuestionInfos of the configuration, transforms included; and a payload the
\* mapper produces refers to no mutable object the registry owns.
C28_RegistriesImmutable ==
  /\ vocab_cache.loaded => vocab_cache.registry = VocabularyRegistry
  /\ question_cache.loaded => question_cache.registry = QuestionMappingRegistry
  /\ (Done("map_response_to_payload") /\ out.exc = "") =>
       Refs(out.val) \cap RegistryRefs = {}

\* The order in which validate looks at the fragments.
FragmentOrder == <<"choice", "chance", "observation", "metric", "facet", "intervention">>

\* The outcome of validating the fragment under key on its own.
AloneOutcome(payload, key) ==
  validate_payload(vocab_cache, [k \in {key} |-> payload[key]])

\* The positions in FragmentOrder of the fragments of payload that fail alone.
FailingFragments(payload) ==
  {i \in DOMAIN FragmentOrder :
     /\ FragmentOrder[i] \in DOMAIN payload
     /\ AloneOutcome(payload, FragmentOrder[i]).exc # ""}

\* C29: validate checks the fragments in the order choice, chance,
\* observation, metric, facet, intervention and stops at the first that
\* fails: the error raised is the one that fragment gives alone, so with an
\* invalid choice and an invalid observation only the choice violation is
\* reported, and a joined ("; ") message comes from an observation fragment
\* that no failing choice or chance fragment precedes.
C29_FirstFailingFragmentOnly ==
  Done("validate_payload") =>
    LET failing == FailingFragments(call.payload)
        first == CHOOSE i \in failing : \A j \in failing : i <= j
    IN  IF failing = {} THEN out.exc = ""
        ELSE /\ out = AloneOutcome(call.payload, FragmentOrder[first])
             /\ out.exc = "VocabularyError"
             /\ ({1, 3} \subseteq failing) =>
                  /\ out.msg[2] = "choice modality"
                  /\ \A i \in DOMAIN out.msg : out.msg[i] # "; "
                  /\ \A i \in DOMAIN out.msg : out.msg[i] # "observation type"
             /\ (\E i \in DOMAIN out.msg : out.msg[i] = "; ") => first = 3

C29_Witness ==
  /\ Done("validate_payload")
  /\ call.payload = [choice |-> [modality |-> StrV("invalid_modality")],
                     observation |-> [observation_type |-> StrV("bogus"),
                                      choice_modality |-> StrV("nap")]]
  /\ Len(ObservationErrors(VocabularyRegistry, call.payload["observation"])) = 2
  /\ out = validate_choice_modality(VocabularyRegistry, StrV("invalid_modality"))

\* The question of the finished call has a choice target without a modality
\* or a chance target without a domain.
TargetFieldMissing ==
  /\ Registered
  /\ \/ CalledQuestion.target.type = "choice" /\ ~Truthy(CalledQuestion.target.modality)
     \/ CalledQuestion.target.type = "chance" /\ ~Truthy(CalledQuestion.target.domain)

\* The field validation misses for the target of the finished call.
MissingField ==
  IF CalledQuestion.target.type = "choice" THEN "choice modality" ELSE "chance domain"

\* C30 (as stated): a question whose choice target has no modality, or whose
\* chance target has no domain, is never accepted by ingest_question_response:
\* whatever the answer the result is "rejected" with a "vocabulary_error: "
\* reason for the missing field, and the writer is not called.
C30_AlwaysVocabularyRejected ==
  (Done("ingest_question_response") /\ TargetFieldMissing) =>
    /\ Returned("rejected")
    /\ out.val.reason.text = <<"vocabulary_error: ", "Missing value for ", MissingField>>
    /\ calls = <<>>

\* C30: a question whose choice target has no modality, or whose chance
\* target has no domain, is never accepted by ingest_question_response and
\* the writer is never called: when the mapping succeeds the choice (chance)
\* fragment holds only the id and the result is "rejected" with the
\* "vocabulary_error: " reason for the missing field; when the answer or the
\* timestamp fails the mapping the result is "rejected" with a
\* "mapping_error: " reason.
C30_NeverAccepted ==
  (Done("ingest_question_response") /\ TargetFieldMissing) =>
    /\ Returned("rejected")
    /\ calls = <<>>
    /\ IF Mapped.exc = ""
       THEN /\ Mapped.val[CalledQuestion.target.type] =
                 [x \in {"id"} |-> StrV(CalledQuestion.target.id)]
            /\ out.val.payload = Mapped.val
            /\ out.val.reason.text =
                 <<"vocabulary_error: ", "Missing value for ", MissingField>>
       ELSE /\ Mapped.exc = "ResponseMappingError"
            /\ out.val.reason.text = <<"mapping_error: ">> \o Mapped.msg

C30_Witness ==
  /\ Done("ingest_question_response")
  /\ call.question_id = "q_no_domain"
  /\ call.writer_ok
  /\ call.recorded_at = None
  /\ Returned("rejected")
  /\ out.val.payload["chance"] = [id |-> StrV("housing_security")]
  /\ out.val.reason.text = <<"vocabulary_error: ", "Missing value for ", "chance domain">>

====
